---- MODULE Spec2Model ----
(***************************************************************************)
(* A model of src/adb_runner.py: one ScrcpyEmbedWindow session (the        *)
(* mirroring process, its output queue and log, the layout adjuster, the   *)
(* recording controller, the close path) inside the AdbRunnerApp host.     *)
(*                                                                         *)
(* The UI thread runs one callback at a time: a user event (a click, a     *)
(* close request, a resize), a timer (the 100 ms tick, the layout          *)
(* adjustment) or a callback that a background thread scheduled with       *)
(* master.after(0, ...).  Every background thread is a slot of `threads`   *)
(* and advances one blocking call or one shared read/write at a time.      *)
(***************************************************************************)
EXTENDS Integers, Sequences, FiniteSets, TLC

\* ------------------------------------------------------------------ bounds
\* Background recording threads that may be alive at once.
MaxThreads == 2
\* Recordings started over the session's life (each gets its own process
\* handle and its own remote path).
MaxStarts == 2
\* Pending timers of the layout adjustment that a resize event leaves alone:
\* in the layout specification, and in the debounce specification.
MaxJobs == 1
MaxPending == 2
\* Screenshot threads that can exist at once, sizes the container can take,
\* and <Configure> events that can wait.
MaxShots == 2
MaxSize == 2
MaxConfigure == 2
\* Lines the mirroring process prints in the layout specification.
MaxLines == 2
\* Lines the pipe between the mirroring process and the reader holds; the
\* process blocks on a full pipe.
PipeCap == 2
\* Lines the mirroring process prints in the burst specification.
BurstLen == 101
\* Sessions the host opens, milliseconds the clock runs, FindWindow calls a
\* discovery makes before its 15 seconds are over.
MaxSessions == 2
MaxClock == 3
MaxPolls == 2
\* Pieces of text the device pane holds before the next refresh is held back.
MaxText == 3

None == 0
ThreadIds == 1..MaxThreads
ShotIds == 1..MaxShots
ProcIds == 1..(MaxStarts + 1)
SessionIds == 1..MaxSessions

VARIABLES
    \* --- ScrcpyEmbedWindow fields (src/adb_runner.py:71-85)
    is_recording,           \* self.is_recording
    recording_process,      \* self.recording_process: None or a handle
    recording_device_path,  \* self.recording_device_path: None stands for ""
    is_closing,             \* self._is_closing
    scrcpy_process,         \* self.scrcpy_process: None or the handle 1
    \* --- widgets
    record_button,          \* [state, text] of self.record_button
    screenshot_button,      \* state of self.screenshot_button
    window,                 \* "open" | "destroyed": the Toplevel itself
    \* --- the operating system
    rec_procs,              \* each capture process: "none" | "running" | "killed" | "exited"
    scrcpy_state,           \* the mirroring process: "none" | "running" | "exited"
    \* --- threads and the UI scheduler
    run_pc,                 \* the _run_and_embed_scrcpy thread
    threads,                \* the recording threads
    ui_after,               \* callbacks scheduled with master.after(0, ...), in order
    n_starts,               \* recordings started so far
    host,                   \* AdbRunnerApp's root: "running" | "closing" | "destroyed"
    \* --- the output queue and the visible log
    output_queue,           \* self.output_queue
    log,                    \* the text of self.output_text, line by line
    tick_pending,           \* the pending self.after(100, self._check_output_queue) timers
    pipe,                   \* lines the mirroring process wrote, not yet read
    \* --- layout
    aspect_ratio,           \* self.aspect_ratio: Unset (None) or a double
    resize_job,             \* self.resize_job: None or an after id
    adjust_jobs,            \* the pending self.after(100, self._adjust_aspect_ratio) ids
    geom,                   \* [total_width, pane_height]: what winfo_* return now
    sash,                   \* the position last given to sashpos(0, ...), None before
    stream,                 \* the lines the mirroring process has still to write
    \* --- history (written, never read by the program)
    close_from,             \* RecordingState when _on_close passed its guard
    close_trace,            \* the blocking steps the close path's stop sequence made
    destroyed_by,           \* "none" | "session" | "host"
    written,                \* every line the mirroring process wrote, in order
    burst_drained,          \* the last tick found more than 100 lines in the queue
    parsed,                 \* the width and height self.aspect_ratio was computed from
    adjusted,               \* the geometry the last applied adjustment read, and its ideal width
    \* --- the UI thread, the reader thread and window discovery
    ui_pc,                  \* the UI thread: "idle" between callbacks, "wait" inside
                            \* scrcpy_process.wait(timeout=2), line 277
    output_thread,          \* the _pipe_output_to_queue thread has been started
    scrcpy_hwnd,            \* self.scrcpy_hwnd: None or the window found
    polls,                  \* FindWindow calls _find_and_embed_window has made
    \* --- the host application (AdbRunnerApp)
    clock,                  \* time.time() in milliseconds
    sessions,               \* each session the host created: its thread and unique_title
    refresh_button,         \* state of self.refresh_button
    devices_thread,         \* the _get_devices_thread thread
    adb_output_text,        \* the text of self.adb_output_text, piece by piece
    \* --- screenshots and the embedded window
    shots,                  \* the _take_screenshot_thread threads
    embed_state,            \* _embed_window: "none" | "embedded" (<Configure> is bound) | "failed"
    container,              \* [w, h] of self.embed_frame
    configure,              \* the <Configure> events of embed_frame not yet dispatched
    child,                  \* the last MoveWindow call: its width and height, and its caller
    \* --- the device, and a second session opened on it
    screenshot_png,         \* /sdcard/screenshot.png: NoFile, or the session whose screencap wrote it
    peer,                   \* the _take_screenshot_thread thread of session 2
    pulled,                 \* per session, whose file its last pull retrieved (NoFile: none)
    removed,                \* per session, whose file its last rm removed (NoFile: none)
    \* --- what the model keeps of the log: the session's own notices whose
    \* kind is in `watched` are queued, the others are left out (the queue and
    \* the log are then the projection of the real ones onto those kinds; the
    \* program never reads a notice back).  Lines of the mirroring process are
    \* always kept.
    watched

sessVars == <<is_recording, recording_process, recording_device_path, is_closing,
              scrcpy_process, record_button, screenshot_button, window, rec_procs,
              scrcpy_state, run_pc, threads, ui_after, n_starts, host,
              close_from, close_trace, destroyed_by>>
outVars == <<output_queue, log, tick_pending, pipe, written, burst_drained, watched,
            stream>>
layVars == <<aspect_ratio, resize_job, adjust_jobs, geom, sash, parsed, adjusted>>
runVars == <<ui_pc, output_thread, scrcpy_hwnd, polls>>
hostVars == <<clock, sessions, refresh_button, devices_thread, adb_output_text>>
shotVars == <<shots>>
embedVars == <<embed_state, container, configure, child>>
devVars == <<screenshot_png, peer, pulled, removed>>
vars == <<sessVars, outVars, layVars, runVars, hostVars, shotVars, embedVars, devVars>>

\* ----------------------------------------------------------------- helpers
FreeThread == [kind |-> "free", pc |-> "none", closing |-> FALSE,
               from |-> "none", num |-> 0, trace |-> <<>>]

Msg(k) == [k |-> k, n |-> 0]
FreeShot == [pc |-> "free", trace |-> <<>>]
NoMove == [w |-> 0, h |-> 0, by |-> "none"]
NoFile == 0
Sizes == [w : 1..MaxSize, h : 1..MaxSize]

\* A session the host has not opened, one whose _run_and_embed_scrcpy thread
\* has been started, and one whose thread has made its title from the clock
\* reading ms: f"scrcpy_{int(time.time() * 1000)}", line 135.
NoSession == [pc |-> "none", unique_title |-> None]
Started == [pc |-> "started", unique_title |-> None]
Titled(ms) == [pc |-> "titled", unique_title |-> ms]

Alive == host # "destroyed"
\* A widget of the session can still be configured.
Open == window = "open"
\* The UI thread is in the event loop, free to run the next handler.
UiIdle == ui_pc = "idle"

\* The threads inside _stop_recording_thread (the close path's thread has
\* left it once it is about to schedule final_close_actions) and those inside
\* _start_recording_thread.
ActiveStops == {t \in ThreadIds : threads[t].kind = "stop" /\ threads[t].pc # "final"}
ActiveStarts == {t \in ThreadIds : threads[t].kind = "start"}

\* A stop sequence has scheduled its _update_recording_ui(False), which the
\* UI thread has not run yet.
StopPending ==
    \E i \in 1..Len(ui_after) :
        ui_after[i] = [cb |-> "update_recording_ui", arg |-> FALSE]

\* The specification's recordingState, read off the code's state: Stopping
\* from the start of a stop sequence until its _update_recording_ui(False)
\* has run, Recording while is_recording, else Idle.
RecordingState ==
    IF ActiveStops # {} \/ StopPending THEN "Stopping"
    ELSE IF is_recording THEN "Recording"
    ELSE "Idle"

FreeIds == {t \in ThreadIds : threads[t].kind = "free"}
NewThread == CHOOSE t \in FreeIds : \A u \in FreeIds : t <= u

Watched(l) == l.k \in watched
Put(lines) == output_queue' = output_queue \o SelectSeq(lines, Watched)

\* The lines of kind k in the queue and in the log.
Count(k) ==
    Cardinality({i \in 1..Len(output_queue) : output_queue[i].k = k})
    + Cardinality({i \in 1..Len(log) : log[i].k = k})

\* What Popen.poll() may answer for capture process p: TRUE when it reports an
\* exit code.  A killed process is gone at some moment after the signal.
PollDead(p) ==
    CASE rec_procs[p] = "exited" -> {TRUE}
      [] rec_procs[p] = "killed" -> {TRUE, FALSE}
      [] OTHER -> {FALSE}

\* Popen.kill(): the signal is sent to a process that has not been reaped.
Killed(p) == [rec_procs EXCEPT ![p] = IF @ = "running" THEN "killed" ELSE @]

\* Frames: the variables a recording thread's step never touches.
threadFrame == <<is_closing, scrcpy_process, record_button, screenshot_button,
                 window, scrcpy_state, run_pc, n_starts, host, close_from,
                 destroyed_by, log, tick_pending, pipe, written, burst_drained, watched,
                 stream>>
uiFrame == <<scrcpy_process, run_pc, n_starts, host, log, pipe, written, burst_drained,
             watched, stream, aspect_ratio, resize_job, geom, sash, parsed, adjusted>>

\* ------------------------------------------------------- strings (Python)
\* A line of text is a sequence of one-character strings.
Marker == <<"I", "N", "F", "O", ":", " ", "T", "e", "x", "t", "u", "r", "e", ":">>
Whitespace == {" ", "\n", "\t", "\r", "\f"}
Digits == <<"0", "1", "2", "3", "4", "5", "6", "7", "8", "9">>
DigitSet == {Digits[i] : i \in 1..10}
DigitVal(c) == (CHOOSE i \in 1..10 : Digits[i] = c) - 1

\* `sub in s`.
Contains(s, sub) ==
    \E i \in 1..(Len(s) - Len(sub) + 1) :
        \A j \in 1..Len(sub) : s[i + j - 1] = sub[j]

\* s.split(c)[-1]: what follows the last c, all of s without one.
AfterLast(s, c) ==
    LET at == {i \in 1..Len(s) : s[i] = c}
        last == IF at = {} THEN 0 ELSE CHOOSE i \in at : \A j \in at : j <= i
    IN SubSeq(s, last + 1, Len(s))

\* s.strip().
Strip(s) ==
    LET ink == {i \in 1..Len(s) : s[i] \notin Whitespace} IN
    IF ink = {} THEN <<>>
    ELSE SubSeq(s, CHOOSE i \in ink : \A j \in ink : i <= j,
                   CHOOSE i \in ink : \A j \in ink : j <= i)

\* s.split(c): the pieces between the occurrences of c.
RECURSIVE Split(_, _)
Split(s, c) ==
    LET at == {i \in 1..Len(s) : s[i] = c} IN
    IF at = {} THEN <<s>>
    ELSE LET first == CHOOSE i \in at : \A j \in at : i <= j IN
         <<SubSeq(s, 1, first - 1)>> \o Split(SubSeq(s, first + 1, Len(s)), c)

\* What int(s) accepts: blanks around an optional sign and digits, with single
\* underscores allowed between digits.
IntBody(s) ==
    LET t == Strip(s) IN
    IF t # <<>> /\ t[1] \in {"+", "-"} THEN SubSeq(t, 2, Len(t)) ELSE t
IsInt(s) ==
    LET b == IntBody(s) IN
    /\ b # <<>>
    /\ \A i \in 1..Len(b) : b[i] \in DigitSet \cup {"_"}
    /\ b[1] # "_" /\ b[Len(b)] # "_"
    /\ \A i \in 1..(Len(b) - 1) : ~(b[i] = "_" /\ b[i + 1] = "_")

RECURSIVE DigitsValue(_, _)
DigitsValue(b, acc) ==
    IF b = <<>> THEN acc
    ELSE DigitsValue(Tail(b), IF b[1] = "_" THEN acc ELSE 10 * acc + DigitVal(b[1]))

\* int(s), for an s that IsInt accepts.
IntValue(s) ==
    LET t == Strip(s)
        v == DigitsValue(IntBody(s), 0)
    IN IF t[1] = "-" THEN 0 - v ELSE v

\* Lines 180-181: resolution = line.split(":")[-1].strip();
\* width, height = map(int, resolution.split('x')).  ok is FALSE where the
\* code raises ValueError: a piece that is no integer, or other than two pieces.
ParseResolution(line) ==
    LET parts == Split(Strip(AfterLast(line, ":")), "x") IN
    IF Len(parts) = 2 /\ IsInt(parts[1]) /\ IsInt(parts[2])
    THEN [ok |-> TRUE, width |-> IntValue(parts[1]), height |-> IntValue(parts[2])]
    ELSE [ok |-> FALSE, width |-> 0, height |-> 0]

\* --------------------------------------------------------------- the lines
\* The text of each kind of line that reaches the output queue: what the
\* mirroring process prints, and the notices the session itself puts.
LineText(k) ==
    CASE k = "tex_1080x2400" ->
         <<"I","N","F","O",":"," ","T","e","x","t","u","r","e",":"," ","1","0","8","0",
           "x","2","4","0","0","\n">>
      [] k = "tex_480x854" ->
         <<"I","N","F","O",":"," ","T","e","x","t","u","r","e",":"," ","4","8","0","x",
           "8","5","4","\n">>
      [] k = "tex_2400x1080" ->
         <<"I","N","F","O",":"," ","T","e","x","t","u","r","e",":"," ","2","4","0","0",
           "x","1","0","8","0","\n">>
      [] k = "tex_0x2400" ->
         <<"I","N","F","O",":"," ","T","e","x","t","u","r","e",":"," ","0","x","2","4",
           "0","0","\n">>
      [] k = "tex_720x0" ->
         <<"I","N","F","O",":"," ","T","e","x","t","u","r","e",":"," ","7","2","0","x",
           "0","\n">>
      [] k = "tex_720x-1" ->
         <<"I","N","F","O",":"," ","T","e","x","t","u","r","e",":"," ","7","2","0","x",
           "-","1","\n">>
      [] k = "tex_star" ->
         <<"I","N","F","O",":"," ","T","e","x","t","u","r","e",":"," ","1","0","8","0",
           "*","2","4","0","0","\n">>
      [] k = "plain" ->
         <<"I","N","F","O",":"," ","R","e","n","d","e","r","e","r",":"," ","o","p","e",
           "n","g","l","\n">>
      [] k = "fatal" ->
         <<"F","A","T","A","L"," ","E","R","R","O","R",":"," ","F","a","i","l","e","d",
           " ","t","o"," ","s","t","a","r","t"," ","s","c","r","c","p","y"," ","p","r",
           "o","c","e","s","s",".","\n">>
      [] k = "terminating" ->
         <<"I","N","F","O",":"," ","T","e","r","m","i","n","a","t","i","n","g"," ","s",
           "c","r","c","p","y"," ","p","r","o","c","e","s","s",".",".",".","\n">>
      [] k = "closing" ->
         <<"I","N","F","O",":"," ","W","i","n","d","o","w"," ","c","l","o","s","i","n",
           "g",","," ","s","t","o","p","p","i","n","g"," ","a","c","t","i","v","e"," ",
           "r","e","c","o","r","d","i","n","g",".",".",".","\n">>
      [] k = "starting" ->
         <<"I","N","F","O",":"," ","S","t","a","r","t","i","n","g"," ","r","e","c","o",
           "r","d","i","n","g",".",".",".","\n">>
      [] k = "start_failed" ->
         <<"E","R","R","O","R",":"," ","F","a","i","l","e","d"," ","t","o"," ","s","t",
           "a","r","t"," ","r","e","c","o","r","d","i","n","g"," ","p","r","o","c","e",
           "s","s",".","\n">>
      [] k = "stopping" ->
         <<"I","N","F","O",":"," ","S","t","o","p","p","i","n","g"," ","r","e","c","o",
           "r","d","i","n","g",".",".",".","\n">>
      [] k = "no_process" ->
         <<"E","R","R","O","R",":"," ","N","o"," ","a","c","t","i","v","e"," ","r","e",
           "c","o","r","d","i","n","g"," ","p","r","o","c","e","s","s"," ","f","o","u",
           "n","d"," ","t","o"," ","s","t","o","p",".","\n">>
      [] k = "not_found" ->
         <<"E","R","R","O","R",":"," ","C","o","u","l","d"," ","n","o","t"," ","f","i",
           "n","d"," ","s","c","r","c","p","y"," ","w","i","n","d","o","w"," ","w","i",
           "t","h"," ","t","i","t","l","e"," ","'","'"," ","i","n"," ","t","i","m","e",
           ".","\n">>
      [] k = "embedded" ->
         <<"I","N","F","O",":"," ","E","m","b","e","d","d","e","d"," ","s","c","r","c",
           "p","y"," ","w","i","n","d","o","w"," ","(","H","W","N","D",":"," ",")","\n">>
      [] k = "stopped" ->
         <<"I","N","F","O",":"," ","R","e","c","o","r","d","i","n","g"," ","p","r","o",
           "c","e","s","s"," ","s","t","o","p","p","e","d",".","\n">>
      [] k = "saving" ->
         <<"I","N","F","O",":"," ","N","o","w"," ","t","r","y","i","n","g"," ","t","o",
           " ","s","a","v","e"," ","t","h","e"," ","f","i","l","e",".",".",".","\n">>
      [] k = "stop_timeout" ->
         <<"W","A","R","N","I","N","G",":"," ","R","e","c","o","r","d","i","n","g"," ",
           "p","r","o","c","e","s","s"," ","d","i","d"," ","n","o","t"," ","s","t","o",
           "p"," ","i","n"," ","t","i","m","e",","," ","k","i","l","l","i","n","g"," ",
           "i","t"," ","f","o","r","c","e","f","u","l","l","y",".","\n">>
      [] k = "stop_error" ->
         <<"E","R","R","O","R",":"," ","A","n"," ","e","r","r","o","r"," ","o","c","c",
           "u","r","r","e","d"," ","w","h","i","l","e"," ","s","t","o","p","p","i","n",
           "g"," ","t","h","e"," ","r","e","c","o","r","d","i","n","g",":"," ","\n">>
      [] k = "pull_failed" ->
         <<"E","R","R","O","R",":"," ","F","a","i","l","e","d"," ","t","o"," ","p","u",
           "l","l"," ","r","e","c","o","r","d","i","n","g",".","\n">>
      [] k = "saved" ->
         <<"S","U","C","C","E","S","S",":"," ","R","e","c","o","r","d","i","n","g"," ",
           "s","a","v","e","d"," ","t","o"," ","\n">>
      [] k = "shot_taking" ->
         <<"I","N","F","O",":"," ","T","a","k","i","n","g"," ","s","c","r","e","e","n",
           "s","h","o","t",".",".",".","\n">>
      [] k = "shot_capture_failed" ->
         <<"E","R","R","O","R",":"," ","F","a","i","l","e","d"," ","t","o"," ","c","a",
           "p","t","u","r","e"," ","s","c","r","e","e","n","s","h","o","t",".","\n",
           "\n">>
      [] k = "shot_pull_failed" ->
         <<"E","R","R","O","R",":"," ","F","a","i","l","e","d"," ","t","o"," ","p","u",
           "l","l"," ","s","c","r","e","e","n","s","h","o","t",".","\n","\n">>
      [] k = "shot_saved" ->
         <<"S","U","C","C","E","S","S",":"," ","S","c","r","e","e","n","s","h","o","t",
           " ","s","a","v","e","d"," ","t","o"," ","\n">>

\* The resolution lines the mirroring process prints in the layout
\* specification.
ProcKinds == {"tex_1080x2400", "tex_480x854", "tex_2400x1080", "tex_0x2400"}

\* ------------------------------------------------ doubles (IEEE 754 binary64)
\* A double is [sign, m, e]: sign in {-1, 0, 1}, m its 53 mantissa bits, most
\* significant first and leading with 1, e the weight of the last bit as a
\* power of two; zero is sign 0.  The bits are kept as a sequence because the
\* mantissa does not fit TLC's 32-bit integers.
MantBits == 53
Zero == [set |-> TRUE, sign |-> 0, m |-> <<>>, e |-> 0]
\* self.aspect_ratio = None.
Unset == [set |-> FALSE]

RECURSIVE Bin(_)
\* The binary digits of n > 0.
Bin(n) == IF n = 0 THEN <<>> ELSE Bin(n \div 2) \o <<n % 2>>

RECURSIVE BitsValue(_, _)
BitsValue(bits, acc) ==
    IF bits = <<>> THEN acc ELSE BitsValue(Tail(bits), 2 * acc + bits[1])

RECURSIVE FracBits(_, _, _, _)
\* acc followed by the next n binary digits of r / h (r < h), and the
\* remainder left.
FracBits(r, h, n, acc) ==
    IF n = 0 THEN [bits |-> acc, rem |-> r]
    ELSE IF 2 * r >= h THEN FracBits(2 * r - h, h, n - 1, Append(acc, 1))
    ELSE FracBits(2 * r, h, n - 1, Append(acc, 0))

RECURSIVE LeadingZeros(_, _)
\* How many zeros open the binary fraction r / h (0 < r < h).
LeadingZeros(r, h) == IF 2 * r >= h THEN 0 ELSE 1 + LeadingZeros(2 * r, h)

RECURSIVE Pow2(_)
Pow2(n) == IF n = 0 THEN 1 ELSE 2 * Pow2(n - 1)

\* bits + 1 at the same length; carry tells that it wrapped to zero.
Increment(bits) ==
    LET zeros == {i \in 1..Len(bits) : bits[i] = 0} IN
    IF zeros = {} THEN [bits |-> [i \in 1..Len(bits) |-> 0], carry |-> TRUE]
    ELSE LET z == CHOOSE i \in zeros : \A j \in zeros : j <= i
         IN [bits |-> [i \in 1..Len(bits) |->
                         IF i < z THEN bits[i] ELSE IF i = z THEN 1 ELSE 0],
             carry |-> FALSE]

\* Round to nearest, ties to even: m the kept bits, guard the first bit
\* dropped, sticky whether anything below the guard is set.
RoundNearestEven(m, guard, sticky, e) ==
    IF guard = 1 /\ (sticky \/ m[Len(m)] = 1)
    THEN LET up == Increment(m) IN
         IF up.carry
         THEN [m |-> <<1>> \o SubSeq(up.bits, 1, Len(m) - 1), e |-> e + 1]
         ELSE [m |-> up.bits, e |-> e]
    ELSE [m |-> m, e |-> e]

\* width / height for integers 0 < w and 0 < h: the correctly rounded quotient.
QuotientBits(w, h) ==
    LET q0 == w \div h
        r0 == w % h
    IN IF q0 > 0
       THEN LET ib == Bin(q0)
                fr == FracBits(r0, h, MantBits + 1 - Len(ib), ib)
                all == fr.bits
            IN RoundNearestEven(SubSeq(all, 1, MantBits), all[MantBits + 1],
                                fr.rem # 0, Len(ib) - MantBits)
       ELSE LET z == LeadingZeros(r0, h)
                fr == FracBits(r0 * Pow2(z), h, MantBits + 1, <<>>)
            IN RoundNearestEven(SubSeq(fr.bits, 1, MantBits), fr.bits[MantBits + 1],
                                fr.rem # 0, 0 - (z + MantBits))

\* Line 183: width / height (height > 0).
TrueDivide(width, height) ==
    IF width = 0 THEN Zero
    ELSE LET q == QuotientBits(IF width < 0 THEN 0 - width ELSE width, height)
         IN [set |-> TRUE, sign |-> IF width < 0 THEN 0 - 1 ELSE 1, m |-> q.m, e |-> q.e]

RECURSIVE TimesSmall(_, _, _, _)
\* bits * k + carry, exactly, for a small integer k, followed by acc: one bit
\* at a time from the last, as in long multiplication.
TimesSmall(bits, k, carry, acc) ==
    IF bits = <<>> THEN Bin(carry) \o acc
    ELSE LET n == Len(bits)
             t == bits[n] * k + carry
         IN IF t % 2 = 1
            THEN TimesSmall(SubSeq(bits, 1, n - 1), k, t \div 2, <<1>> \o acc)
            ELSE TimesSmall(SubSeq(bits, 1, n - 1), k, t \div 2, <<0>> \o acc)

\* n * a for an integer n > 0 and a double a # 0: the product, rounded once.
TimesInt(n, a) ==
    LET p == TimesSmall(a.m, n, 0, <<>>)
        extra == Len(p) - MantBits
    IN IF extra = 0 THEN [m |-> p, e |-> a.e]
       ELSE RoundNearestEven(SubSeq(p, 1, MantBits), p[MantBits + 1],
                             \E i \in (MantBits + 2)..Len(p) : p[i] = 1,
                             a.e + extra)

\* The integer part of the positive double [m, e].
Truncate(x) ==
    IF x.e >= 0 THEN BitsValue(x.m, 0) * Pow2(x.e)
    ELSE IF MantBits + x.e <= 0 THEN 0
    ELSE BitsValue(SubSeq(x.m, 1, MantBits + x.e), 0)

\* An ideal width rounded away from zero instead of truncated.
IdealRoundedUp(pane_height, a) == Truncate(TimesInt(pane_height, a)) + 1

\* Line 211: int(pane_height * self.aspect_ratio), pane_height > 0: int()
\* drops the fraction, towards zero.
IdealMirrorWidth(pane_height, a) ==
    IF a.sign = 0 THEN 0
    ELSE a.sign * Truncate(TimesInt(pane_height, a))

\* Python's truth value of self.aspect_ratio: None and 0.0 are false.
Truthy(a) == a.set /\ a.sign # 0

\* ------------------------------------------------- the mirroring process
\* A start that spawns the mirroring process again once it has ended.
RunAndEmbedRespawns ==
    /\ Alive /\ (run_pc = "spawn" \/ scrcpy_state = "exited")
    /\ scrcpy_process' = 1
    /\ scrcpy_state' = "running"
    /\ output_thread' = TRUE
    /\ run_pc' = "find"
    /\ UNCHANGED <<is_recording, recording_process, recording_device_path, is_closing,
                   record_button, screenshot_button, window, rec_procs, threads,
                   ui_after, n_starts, host, close_from, close_trace, destroyed_by,
                   outVars, layVars>>
    /\ sessions' = [sessions EXCEPT ![1] = Titled(clock)]
    /\ UNCHANGED <<ui_pc, scrcpy_hwnd, polls, clock, refresh_button, devices_thread,
                   adb_output_text>>
    /\ UNCHANGED <<shotVars, embedVars, devVars>>

\* A start that tries the spawn again after a failure.
RunAndEmbedRetries ==
    /\ Alive /\ run_pc = "spawn"
    /\ \/ /\ scrcpy_process' = 1
          /\ scrcpy_state' = "running"
          /\ output_thread' = TRUE
          /\ run_pc' = "find"
          /\ UNCHANGED output_queue
       \/ /\ Count("fatal") = 0
          /\ Put(<<Msg("fatal")>>)
          /\ UNCHANGED <<scrcpy_process, scrcpy_state, output_thread, run_pc>>
    /\ UNCHANGED <<is_recording, recording_process, recording_device_path, is_closing,
                   record_button, screenshot_button, window, rec_procs, threads,
                   ui_after, n_starts, host, close_from, close_trace, destroyed_by,
                   log, tick_pending, pipe, written, burst_drained, watched, stream, layVars>>
    /\ sessions' = [sessions EXCEPT ![1] = Titled(clock)]
    /\ UNCHANGED <<ui_pc, scrcpy_hwnd, polls, clock, refresh_button, devices_thread,
                   adb_output_text>>
    /\ UNCHANGED <<shotVars, embedVars, devVars>>

\* _run_and_embed_scrcpy, lines 133-159, up to the call of
\* _find_and_embed_window, in the session followed here, which is the first
\* the host opened: the title is made from the clock (line 135), then the
\* process is spawned.  The whole body is one try block whose except
\* clause queues the fatal line: Popen succeeds and the reader thread is
\* started; or Popen raises; or Popen succeeds and Thread.start() raises
\* RuntimeError (the system refuses a new thread), which the same clause
\* reports.
RunAndEmbedScrcpy ==
    /\ Alive /\ run_pc = "spawn"
    /\ \/ /\ scrcpy_process' = 1
          /\ scrcpy_state' = "running"
          /\ output_thread' = TRUE
          /\ run_pc' = "find"
          /\ UNCHANGED output_queue
       \/ /\ Put(<<Msg("fatal")>>)
          /\ run_pc' = "failed"
          /\ UNCHANGED <<scrcpy_process, scrcpy_state, output_thread>>
       \/ /\ scrcpy_process' = 1
          /\ scrcpy_state' = "running"
          /\ Put(<<Msg("fatal")>>)
          /\ run_pc' = "failed"
          /\ UNCHANGED output_thread
    /\ UNCHANGED <<is_recording, recording_process, recording_device_path, is_closing,
                   record_button, screenshot_button, window, rec_procs, threads,
                   ui_after, n_starts, host, close_from, close_trace, destroyed_by,
                   log, tick_pending, pipe, written, burst_drained, watched, stream, layVars>>
    /\ sessions' = [sessions EXCEPT ![1] = Titled(clock)]
    /\ UNCHANGED <<ui_pc, scrcpy_hwnd, polls, clock, refresh_button, devices_thread,
                   adb_output_text>>
    /\ UNCHANGED <<shotVars, embedVars, devVars>>

\* The mirroring process ends by itself (the device is unplugged, the user
\* closes it from the device side).
ScrcpyExits ==
    /\ Alive /\ scrcpy_state = "running"
    /\ scrcpy_state' = "exited"
    /\ UNCHANGED <<is_recording, recording_process, recording_device_path, is_closing,
                   scrcpy_process, record_button, screenshot_button, window, rec_procs,
                   run_pc, threads, ui_after, n_starts, host, close_from, close_trace,
                   destroyed_by, outVars, layVars>>
    /\ UNCHANGED <<runVars, hostVars>>
    /\ UNCHANGED <<shotVars, embedVars, devVars>>

\* A capture process ends by itself: screenrecord stops at its time limit, or
\* the device goes away.
RecordingExits(p) ==
    /\ Alive /\ rec_procs[p] = "running"
    /\ rec_procs' = [rec_procs EXCEPT ![p] = "exited"]
    /\ UNCHANGED <<is_recording, recording_process, recording_device_path, is_closing,
                   scrcpy_process, record_button, screenshot_button, window,
                   scrcpy_state, run_pc, threads, ui_after, n_starts, host, close_from,
                   close_trace, destroyed_by, outVars, layVars>>
    /\ UNCHANGED <<runVars, hostVars>>
    /\ UNCHANGED <<shotVars, embedVars, devVars>>

\* ------------------------------------------------------ window discovery
\* One turn of the loop of _find_and_embed_window, lines 231-237, still inside
\* the try block of _run_and_embed_scrcpy.  FindWindow answers a handle, and
\* the embed step is scheduled with self.after(0, ...); or it answers 0 and the
\* thread sleeps 0.2 s; or the call raises (pywin32 raises pywintypes.error
\* when the lookup fails with an error code set), which the except clause of
\* line 158 reports as the fatal line.  A window exists only while the
\* process runs.
FindWindow ==
    /\ Alive /\ run_pc = "find" /\ polls < MaxPolls
    /\ polls' = polls + 1
    /\ \/ /\ scrcpy_state = "running"
          /\ scrcpy_hwnd' = 1
          /\ ui_after' = Append(ui_after, [cb |-> "embed_window", arg |-> FALSE])
          /\ run_pc' = "found"
          /\ UNCHANGED output_queue
       \/ UNCHANGED <<scrcpy_hwnd, ui_after, run_pc, output_queue>>
       \/ /\ Put(<<Msg("fatal")>>)
          /\ run_pc' = "failed"
          /\ UNCHANGED <<scrcpy_hwnd, ui_after>>
    /\ UNCHANGED <<is_recording, recording_process, recording_device_path, is_closing,
                   scrcpy_process, record_button, screenshot_button, window, rec_procs,
                   scrcpy_state, threads, n_starts, host, close_from, close_trace,
                   destroyed_by, log, tick_pending, pipe, written, burst_drained,
                   watched, stream, layVars>>
    /\ UNCHANGED <<ui_pc, output_thread, hostVars>>
    /\ UNCHANGED <<shotVars, embedVars, devVars>>

\* A timeout that gives the session up: the line is queued and the mirroring
\* process ended.
FindTimeoutTerminates ==
    /\ Alive /\ run_pc = "find" /\ polls = MaxPolls
    /\ Put(<<Msg("not_found")>>)
    /\ run_pc' = "not_found"
    /\ scrcpy_state' = "exited"
    /\ UNCHANGED <<is_recording, recording_process, recording_device_path, is_closing,
                   scrcpy_process, record_button, screenshot_button, window, rec_procs,
                   threads, ui_after, n_starts, host, close_from,
                   close_trace, destroyed_by, log, tick_pending, pipe, written,
                   burst_drained, watched, stream, layVars>>
    /\ UNCHANGED <<runVars, hostVars>>
    /\ UNCHANGED <<shotVars, embedVars, devVars>>

\* Lines 231 and 239: the 15 seconds are over with no window found, and the
\* line saying so is queued.
FindTimeout ==
    /\ Alive /\ run_pc = "find" /\ polls = MaxPolls
    /\ Put(<<Msg("not_found")>>)
    /\ run_pc' = "not_found"
    /\ UNCHANGED <<is_recording, recording_process, recording_device_path, is_closing,
                   scrcpy_process, record_button, screenshot_button, window, rec_procs,
                   scrcpy_state, threads, ui_after, n_starts, host, close_from,
                   close_trace, destroyed_by, log, tick_pending, pipe, written,
                   burst_drained, watched, stream, layVars>>
    /\ UNCHANGED <<runVars, hostVars>>
    /\ UNCHANGED <<shotVars, embedVars, devVars>>

\* ------------------------------------------------------ recording: start
\* _toggle_recording with is_recording False: _start_recording disables the
\* button and starts _start_recording_thread.
StartRecording ==
    /\ Alive /\ UiIdle /\ Open /\ record_button.state = "normal"
    /\ ~is_recording
    /\ FreeIds # {}
    /\ record_button' = [record_button EXCEPT !.state = "disabled"]
    /\ n_starts' = n_starts + 1
    /\ threads' = [threads EXCEPT ![NewThread] =
                     [kind |-> "start", pc |-> "begin", closing |-> FALSE,
                      from |-> RecordingState, num |-> n_starts + 1,
                      trace |-> <<>>]]
    /\ UNCHANGED <<is_recording, recording_process, recording_device_path, is_closing,
                   scrcpy_process, screenshot_button, window, rec_procs, scrcpy_state,
                   run_pc, ui_after, host, close_from, close_trace, destroyed_by,
                   outVars, layVars>>
    /\ UNCHANGED <<runVars, hostVars>>
    /\ UNCHANGED <<shotVars, embedVars, devVars>>

\* The recordings a specification follows: the first n the session starts.
BoundedStart(n) ==
    /\ n_starts < n
    /\ StartRecording

\* _start_recording_thread, lines 360-369: mkdir (which may raise, and then the
\* thread ends there), the path is generated and stored, the notice is queued.
StartBegin(t) ==
    /\ Alive /\ threads[t].kind = "start" /\ threads[t].pc = "begin"
    /\ \/ /\ threads' = [threads EXCEPT ![t] = FreeThread]
          /\ UNCHANGED <<recording_device_path, output_queue>>
       \/ /\ recording_device_path' = threads[t].num
          /\ Put(<<Msg("starting")>>)
          /\ threads' = [threads EXCEPT ![t].pc = "spawn"]
    /\ UNCHANGED <<is_recording, recording_process, rec_procs, ui_after, close_trace,
                   threadFrame, layVars>>
    /\ UNCHANGED <<runVars, hostVars>>
    /\ UNCHANGED <<shotVars, embedVars, devVars>>

\* _start_recording_thread, lines 371-388: Popen succeeds and the UI update is
\* scheduled, or raises and the button's re-enabling is scheduled.
StartSpawn(t) ==
    /\ Alive /\ threads[t].kind = "start" /\ threads[t].pc = "spawn"
    /\ LET p == threads[t].num IN
       \/ /\ recording_process' = p
          /\ rec_procs' = [rec_procs EXCEPT ![p] = "running"]
          /\ ui_after' = Append(ui_after, [cb |-> "update_recording_ui", arg |-> TRUE])
          /\ UNCHANGED output_queue
       \/ /\ Put(<<Msg("start_failed")>>)
          /\ ui_after' = Append(ui_after, [cb |-> "enable_record", arg |-> FALSE])
          /\ UNCHANGED <<recording_process, rec_procs>>
    /\ threads' = [threads EXCEPT ![t] = FreeThread]
    /\ UNCHANGED <<is_recording, recording_device_path, close_trace, threadFrame, layVars>>
    /\ UNCHANGED <<runVars, hostVars>>
    /\ UNCHANGED <<shotVars, embedVars, devVars>>

\* ------------------------------------------------------- recording: stop
StopThread(closing) ==
    [kind |-> "stop", pc |-> "check", closing |-> closing,
     from |-> RecordingState, num |-> 0, trace |-> <<>>]

\* _toggle_recording with is_recording True: _stop_recording disables the
\* button and starts _stop_recording_thread.
StopRecording ==
    /\ Alive /\ UiIdle /\ Open /\ record_button.state = "normal"
    /\ is_recording
    /\ FreeIds # {}
    /\ record_button' = [record_button EXCEPT !.state = "disabled"]
    /\ threads' = [threads EXCEPT ![NewThread] = StopThread(FALSE)]
    /\ UNCHANGED <<is_recording, recording_process, recording_device_path, is_closing,
                   scrcpy_process, screenshot_button, window, rec_procs, scrcpy_state,
                   run_pc, ui_after, n_starts, host, close_from, close_trace,
                   destroyed_by, outVars, layVars>>
    /\ UNCHANGED <<runVars, hostVars>>
    /\ UNCHANGED <<shotVars, embedVars, devVars>>

\* Where a stop thread goes once it has scheduled _update_recording_ui: the
\* close path's thread (stop_and_close_thread) still has to schedule
\* final_close_actions.
AfterUpdate(th) ==
    IF th.closing THEN [th EXCEPT !.pc = "final"] ELSE FreeThread

\* _stop_recording_thread, lines 399-404: no handle, or a process that has
\* exited, ends the sequence at once.
StopCheck(t) ==
    /\ Alive /\ threads[t].kind = "stop" /\ threads[t].pc = "check"
    /\ LET rp == recording_process IN
       \E dead \in (IF rp = None THEN {TRUE} ELSE PollDead(rp)) :
          /\ rec_procs' = IF rp # None /\ dead
                          THEN [rec_procs EXCEPT ![rp] = "exited"] ELSE rec_procs
          /\ IF dead
             THEN /\ Put(<<Msg("stopping"), Msg("no_process")>>)
                  /\ ui_after' = Append(ui_after,
                                        [cb |-> "update_recording_ui", arg |-> FALSE])
                  /\ threads' = [threads EXCEPT ![t] = AfterUpdate(@)]
             ELSE /\ Put(<<Msg("stopping")>>)
                  /\ threads' = [threads EXCEPT ![t].pc = "kill"]
                  /\ UNCHANGED ui_after
    /\ UNCHANGED <<is_recording, recording_process, recording_device_path,
                   close_trace, threadFrame, layVars>>
    /\ UNCHANGED <<runVars, hostVars>>
    /\ UNCHANGED <<shotVars, embedVars, devVars>>

\* A step of the try block that finds self.recording_process cleared raises
\* AttributeError; the `except Exception` clause queues its line and calls
\* self.recording_process.kill() itself, which raises again: the thread ends
\* there, with no pull, no delete and nothing scheduled.
StopDies(t) ==
    /\ Put(<<Msg("stop_error")>>)
    /\ threads' = [threads EXCEPT ![t] = FreeThread]
    /\ UNCHANGED rec_procs

\* Line 407: self.recording_process.kill().
StopKill(t) ==
    /\ Alive /\ threads[t].kind = "stop" /\ threads[t].pc = "kill"
    /\ LET rp == recording_process IN
       IF rp = None
       THEN StopDies(t)
       ELSE /\ rec_procs' = Killed(rp)
            /\ threads' = [threads EXCEPT ![t].pc = "wait",
                                          ![t].trace = Append(@, "kill")]
            /\ UNCHANGED output_queue
    /\ UNCHANGED <<is_recording, recording_process, recording_device_path, ui_after,
                   close_trace, threadFrame, layVars>>
    /\ UNCHANGED <<runVars, hostVars>>
    /\ UNCHANGED <<shotVars, embedVars, devVars>>

\* Lines 408-413: self.recording_process.wait(timeout=10) returns once the
\* process is gone, or raises TimeoutExpired after its ten seconds, and the
\* handler queues the warning.
StopWait(t) ==
    /\ Alive /\ threads[t].kind = "stop" /\ threads[t].pc = "wait"
    /\ LET rp == recording_process IN
       IF rp = None
       THEN StopDies(t)
       ELSE \/ /\ rec_procs[rp] \in {"killed", "exited"}
               /\ rec_procs' = [rec_procs EXCEPT ![rp] = "exited"]
               /\ Put(<<Msg("stopped"), Msg("saving")>>)
               /\ threads' = [threads EXCEPT ![t].pc = "sleep",
                                             ![t].trace = Append(@, "wait")]
            \/ /\ rec_procs[rp] \in {"running", "killed"}
               /\ UNCHANGED rec_procs
               /\ Put(<<Msg("stop_timeout")>>)
               /\ threads' = [threads EXCEPT ![t].pc = "rekill",
                                             ![t].trace = Append(@, "wait")]
    /\ UNCHANGED <<is_recording, recording_process, recording_device_path, ui_after,
                   close_trace, threadFrame, layVars>>
    /\ UNCHANGED <<runVars, hostVars>>
    /\ UNCHANGED <<shotVars, embedVars, devVars>>

\* Line 414, in the handler of TimeoutExpired: self.recording_process.kill()
\* on the handle as it is after the ten seconds of the wait.  On a handle
\* cleared meanwhile the call raises AttributeError inside the handler, and
\* the thread ends there with nothing more queued or scheduled.
StopRekill(t) ==
    /\ Alive /\ threads[t].kind = "stop" /\ threads[t].pc = "rekill"
    /\ LET rp == recording_process IN
       IF rp = None
       THEN /\ threads' = [threads EXCEPT ![t] = FreeThread]
            /\ UNCHANGED rec_procs
       ELSE /\ rec_procs' = Killed(rp)
            /\ threads' = [threads EXCEPT ![t].pc = "sleep",
                                          ![t].trace = Append(@, "kill")]
    /\ UNCHANGED <<is_recording, recording_process, recording_device_path, ui_after,
                   output_queue, close_trace, threadFrame, layVars>>
    /\ UNCHANGED <<runVars, hostVars>>
    /\ UNCHANGED <<shotVars, embedVars, devVars>>

\* Line 419: time.sleep(2).
StopSleep(t) ==
    /\ Alive /\ threads[t].kind = "stop" /\ threads[t].pc = "sleep"
    /\ threads' = [threads EXCEPT ![t].pc = "pull"]
    /\ UNCHANGED <<is_recording, recording_process, recording_device_path, rec_procs,
                   ui_after, output_queue, close_trace, threadFrame, layVars>>
    /\ UNCHANGED <<runVars, hostVars>>
    /\ UNCHANGED <<shotVars, embedVars, devVars>>

\* A pull whose failure ends the sequence, the remote copy left in place.
StopPullOrGiveUp(t) ==
    /\ Alive /\ threads[t].kind = "stop" /\ threads[t].pc = "pull"
    /\ \E ok \in (IF recording_device_path = None THEN {FALSE} ELSE BOOLEAN) :
          /\ Put(<<Msg(IF ok THEN "saved" ELSE "pull_failed")>>)
          /\ threads' = [threads EXCEPT ![t].pc = IF ok THEN "rm" ELSE "done",
                                        ![t].trace = Append(@, "pull")]
    /\ UNCHANGED <<is_recording, recording_process, recording_device_path, rec_procs,
                   ui_after, close_trace, threadFrame, layVars>>
    /\ UNCHANGED <<runVars, hostVars>>
    /\ UNCHANGED <<shotVars, embedVars, devVars>>

\* Lines 421-430: the pull of self.recording_device_path as it is now; an
\* empty path names no remote file, so that pull fails.
StopPull(t) ==
    /\ Alive /\ threads[t].kind = "stop" /\ threads[t].pc = "pull"
    /\ \E ok \in (IF recording_device_path = None THEN {FALSE} ELSE BOOLEAN) :
          /\ Put(<<Msg(IF ok THEN "saved" ELSE "pull_failed")>>)
          /\ threads' = [threads EXCEPT ![t].pc = "rm",
                                        ![t].trace = Append(@, "pull")]
    /\ UNCHANGED <<is_recording, recording_process, recording_device_path, rec_procs,
                   ui_after, close_trace, threadFrame, layVars>>
    /\ UNCHANGED <<runVars, hostVars>>
    /\ UNCHANGED <<shotVars, embedVars, devVars>>

\* Lines 432-433: the delete of the remote copy, its result ignored.
StopRm(t) ==
    /\ Alive /\ threads[t].kind = "stop" /\ threads[t].pc = "rm"
    /\ threads' = [threads EXCEPT ![t].pc = "done", ![t].trace = Append(@, "rm")]
    /\ UNCHANGED <<is_recording, recording_process, recording_device_path, rec_procs,
                   ui_after, output_queue, close_trace, threadFrame, layVars>>
    /\ UNCHANGED <<runVars, hostVars>>
    /\ UNCHANGED <<shotVars, embedVars, devVars>>

\* Line 435: self.master.after(0, self._update_recording_ui, False).
StopDone(t) ==
    /\ Alive /\ threads[t].kind = "stop" /\ threads[t].pc = "done"
    /\ ui_after' = Append(ui_after, [cb |-> "update_recording_ui", arg |-> FALSE])
    /\ threads' = [threads EXCEPT ![t] = AfterUpdate(@)]
    /\ UNCHANGED <<is_recording, recording_process, recording_device_path, rec_procs,
                   output_queue, close_trace, threadFrame, layVars>>
    /\ UNCHANGED <<runVars, hostVars>>
    /\ UNCHANGED <<shotVars, embedVars, devVars>>

\* stop_and_close_thread, line 290: self.master.after(0, final_close_actions).
StopAndCloseFinal(t) ==
    /\ Alive /\ threads[t].kind = "stop" /\ threads[t].pc = "final"
    /\ ui_after' = Append(ui_after, [cb |-> "final_close_actions", arg |-> FALSE])
    /\ close_trace' = threads[t].trace
    /\ threads' = [threads EXCEPT ![t] = FreeThread]
    /\ UNCHANGED <<is_recording, recording_process, recording_device_path, rec_procs,
                   output_queue, threadFrame, layVars>>
    /\ UNCHANGED <<runVars, hostVars>>
    /\ UNCHANGED <<shotVars, embedVars, devVars>>

\* ------------------------------------------------------------ UI callbacks
\* _update_recording_ui(flag).  On a destroyed window the first config call
\* raises TclError: the flag is stored and nothing after it runs.
UpdateRecordingUi(flag) ==
    /\ is_recording' = flag
    /\ IF ~Open
       THEN UNCHANGED <<record_button, recording_process, recording_device_path>>
       ELSE IF flag
       THEN /\ record_button' = [state |-> "normal", text |-> "Stop Recording"]
            /\ UNCHANGED <<recording_process, recording_device_path>>
       ELSE /\ record_button' = [state |-> "normal", text |-> "Start Recording"]
            /\ recording_process' = None
            /\ recording_device_path' = None

\* ------------------------------------------------------------ screenshots
InFlight == {i \in ShotIds : shots[i].pc \notin {"free", "ended"}}

\* A click that leaves the button as it was.
\* `adb shell screencap -p /sdcard/screenshot.png` run for session s, lines
\* 323-327: the one path every session uses now holds s's picture.
Screencap(s) == screenshot_png' = s

\* `adb pull /sdcard/screenshot.png ...` for session s, lines 332-333: the
\* file as it is now is copied.
Pull(s) == pulled' = [pulled EXCEPT ![s] = screenshot_png]
PullFails(s) == pulled' = [pulled EXCEPT ![s] = NoFile]

\* `adb shell rm /sdcard/screenshot.png` for session s, lines 339-340: the
\* file as it is now is removed.
Rm(s) ==
    /\ removed' = [removed EXCEPT ![s] = screenshot_png]
    /\ screenshot_png' = NoFile

TakeScreenshotLeavesEnabled ==
    /\ Alive /\ UiIdle /\ Open /\ screenshot_button = "normal"
    /\ \E i \in ShotIds :
         /\ i \notin InFlight
         /\ shots' = [shots EXCEPT ![i] = [pc |-> "mkdir", trace |-> <<"disable">>]]
    /\ UNCHANGED <<sessVars, outVars, layVars, runVars, hostVars, embedVars, devVars>>

\* _take_screenshot, lines 306-311: a click on the enabled button disables
\* it and starts the thread.
TakeScreenshot ==
    /\ Alive /\ UiIdle /\ Open /\ screenshot_button = "normal"
    /\ screenshot_button' = "disabled"
    /\ \E i \in ShotIds :
         /\ i \notin InFlight
         /\ shots' = [shots EXCEPT ![i] = [pc |-> "mkdir", trace |-> <<"disable">>]]
    /\ UNCHANGED <<is_recording, recording_process, recording_device_path, is_closing,
                   scrcpy_process, record_button, window, rec_procs, scrcpy_state,
                   run_pc, threads, ui_after, n_starts, host, close_from, close_trace,
                   destroyed_by>>
    /\ UNCHANGED <<outVars, layVars, runVars, hostVars, embedVars, devVars>>

\* Lines 315-318: the notice is queued and the directory made, outside the
\* try: when mkdir raises, the thread ends there.
ShotMkdir(i) ==
    /\ Alive /\ shots[i].pc = "mkdir"
    /\ Put(<<Msg("shot_taking")>>)
    /\ \/ shots' = [shots EXCEPT ![i].pc = "capture"]
       \/ shots' = [shots EXCEPT ![i].pc = "ended"]
    /\ UNCHANGED <<ui_after, screenshot_button>>
    /\ UNCHANGED <<is_recording, recording_process, recording_device_path, is_closing,
                   scrcpy_process, record_button, window, rec_procs, scrcpy_state,
                   run_pc, threads, n_starts, host, close_from, close_trace,
                   destroyed_by, log, tick_pending, pipe, written, burst_drained,
                   watched, stream, layVars, runVars, hostVars, embedVars, devVars>>

\* Lines 326-330: screencap on the device; on failure the error is queued
\* and `return` leads to the finally clause.
ShotCapture(i) ==
    /\ Alive /\ shots[i].pc = "capture"
    /\ \/ /\ shots' = [shots EXCEPT ![i].pc = "pull", ![i].trace = Append(@, "capture")]
          /\ Screencap(1)
          /\ UNCHANGED output_queue
       \/ /\ shots' = [shots EXCEPT ![i].pc = "finally",
                                     ![i].trace = Append(@, "capture")]
          /\ Put(<<Msg("shot_capture_failed")>>)
          /\ UNCHANGED screenshot_png
    /\ UNCHANGED <<peer, pulled, removed>>
    /\ UNCHANGED <<is_recording, recording_process, recording_device_path, is_closing,
                   scrcpy_process, record_button, screenshot_button, window, rec_procs,
                   scrcpy_state, run_pc, threads, ui_after, n_starts, host, close_from,
                   close_trace, destroyed_by, log, tick_pending, pipe, written,
                   burst_drained, watched, stream, layVars, runVars, hostVars,
                   embedVars>>

\* Lines 332-337: the pull, and the line that tells how it went.
ShotPull(i) ==
    /\ Alive /\ shots[i].pc = "pull"
    /\ shots' = [shots EXCEPT ![i].pc = "rm", ![i].trace = Append(@, "pull")]
    /\ \/ screenshot_png # NoFile /\ Pull(1) /\ Put(<<Msg("shot_saved")>>)
       \/ PullFails(1) /\ Put(<<Msg("shot_pull_failed")>>)
    /\ UNCHANGED <<screenshot_png, peer, removed>>
    /\ UNCHANGED <<is_recording, recording_process, recording_device_path, is_closing,
                   scrcpy_process, record_button, screenshot_button, window, rec_procs,
                   scrcpy_state, run_pc, threads, ui_after, n_starts, host, close_from,
                   close_trace, destroyed_by, log, tick_pending, pipe, written,
                   burst_drained, watched, stream, layVars, runVars, hostVars,
                   embedVars>>

\* Lines 339-340: the file on the device is removed, whatever the result.
ShotRm(i) ==
    /\ Alive /\ shots[i].pc = "rm"
    /\ shots' = [shots EXCEPT ![i].pc = "finally", ![i].trace = Append(@, "delete")]
    /\ Rm(1)
    /\ UNCHANGED <<peer, pulled>>
    /\ UNCHANGED <<sessVars, outVars, layVars, runVars, hostVars, embedVars>>

\* Lines 341-342, the finally clause: the re-enabling of the button is
\* handed to the UI thread, and the thread ends.
ShotFinally(i) ==
    /\ Alive /\ shots[i].pc = "finally"
    /\ shots' = [shots EXCEPT ![i].pc = "ended", ![i].trace = Append(@, "enable")]
    /\ ui_after' = Append(ui_after, [cb |-> "enable_screenshot", arg |-> FALSE])
    /\ UNCHANGED <<is_recording, recording_process, recording_device_path, is_closing,
                   scrcpy_process, record_button, screenshot_button, window, rec_procs,
                   scrcpy_state, run_pc, threads, n_starts, host, close_from,
                   close_trace, destroyed_by>>
    /\ UNCHANGED <<outVars, layVars, runVars, hostVars, embedVars, devVars>>

\* What a step of session 2's screenshot thread leaves alone.
peerFrame == <<sessVars, outVars, layVars, runVars, hostVars, shotVars, embedVars>>

\* _take_screenshot in session 2, a session the host has opened on the same
\* device: its button is enabled when no run of its own is under way.
PeerTakeScreenshot ==
    /\ Alive /\ UiIdle /\ sessions[2].pc # "none" /\ peer = "idle"
    /\ peer' = "capture"
    /\ UNCHANGED <<screenshot_png, pulled, removed, peerFrame>>

\* Lines 326-330 in session 2.
PeerCapture ==
    /\ Alive /\ peer = "capture"
    /\ \/ peer' = "pull" /\ Screencap(2)
       \/ peer' = "finally" /\ UNCHANGED screenshot_png
    /\ UNCHANGED <<pulled, removed, peerFrame>>

\* Lines 332-337 in session 2.
PeerPull ==
    /\ Alive /\ peer = "pull"
    /\ peer' = "rm"
    /\ \/ screenshot_png # NoFile /\ Pull(2)
       \/ PullFails(2)
    /\ UNCHANGED <<screenshot_png, removed, peerFrame>>

\* Lines 339-340 in session 2.
PeerRm ==
    /\ Alive /\ peer = "rm"
    /\ peer' = "finally"
    /\ Rm(2)
    /\ UNCHANGED <<pulled, peerFrame>>

\* Lines 341-342 in session 2, and the lambda its UI thread then runs.
PeerFinally ==
    /\ Alive /\ peer = "finally"
    /\ peer' = "idle"
    /\ UNCHANGED <<screenshot_png, pulled, removed, peerFrame>>

\* The lambda of line 342: self.screenshot_button.config(state=NORMAL); on a
\* destroyed window it raises TclError.
EnableScreenshot == screenshot_button' = IF Open THEN "normal" ELSE screenshot_button

\* The lambda of line 388: self.record_button.config(state=NORMAL).
EnableRecord ==
    /\ record_button' = IF Open THEN [record_button EXCEPT !.state = "normal"]
                        ELSE record_button
    /\ UNCHANGED <<is_recording, recording_process, recording_device_path>>

\* _embed_window, lines 241-258, run by the UI thread.  On a destroyed window
\* winfo_id() raises TclError, and a handle whose process has gone makes
\* SetParent raise: nothing after the failing call runs, and the exception
\* leaves the callback.  Otherwise the window is reparented, moved to the
\* container's size, <Configure> is bound and the notice queued.
EmbedWindow ==
    IF scrcpy_hwnd = None
    THEN UNCHANGED <<output_queue, embed_state, child>>
    ELSE IF Open /\ scrcpy_state = "running"
    THEN /\ child' = [w |-> container.w, h |-> container.h, by |-> "embed_window"]
         /\ embed_state' = "embedded"
         /\ Put(<<Msg("embedded")>>)
    ELSE /\ embed_state' = "failed"
         /\ UNCHANGED <<output_queue, child>>

\* The geometry manager gives embed_frame a new size, and Tk queues the
\* <Configure> event that carries it.
ContainerResizes(sz) ==
    /\ Alive /\ Open /\ sz # container /\ Len(configure) < MaxConfigure
    /\ container' = sz
    /\ configure' = Append(configure, sz)
    /\ UNCHANGED <<sessVars, outVars, layVars, runVars, hostVars, shotVars, embed_state,
                   child, devVars>>

\* A handler that leaves the embedded window where it is.
ResizeChildKeeps(event) == UNCHANGED child

\* _resize_child, lines 260-263: with a handle, MoveWindow to the event's
\* width and height; on the handle of a process that has gone the call
\* raises and nothing has moved.
ResizeChild(event) ==
    IF scrcpy_hwnd # None /\ scrcpy_state = "running"
    THEN child' = [w |-> event.w, h |-> event.h, by |-> "resize_child"]
    ELSE UNCHANGED child

\* The UI thread dispatches the oldest <Configure> event of embed_frame: to
\* _resize_child once line 257 has bound it, to nothing before.
DispatchConfigure ==
    /\ Alive /\ UiIdle /\ Open /\ configure # <<>>
    /\ configure' = Tail(configure)
    /\ IF embed_state = "embedded"
       THEN ResizeChild(Head(configure))
       ELSE UNCHANGED child
    /\ UNCHANGED <<sessVars, outVars, layVars, runVars, hostVars, shotVars, embed_state,
                   container, devVars>>

\* _update_device_list, lines 994-1001: the combobox is filled and the
\* refresh button enabled again.
UpdateDeviceList == refresh_button' = "normal"

\* self.destroy(), line 280: the window goes, and the timers it owns with it.
Destroy ==
    /\ window' = "destroyed"
    /\ destroyed_by' = IF Open THEN "session" ELSE destroyed_by
    /\ tick_pending' = 0
    /\ adjust_jobs' = {}

\* final_close_actions, lines 271-280, up to its blocking call: a mirroring
\* process that still runs is told so in the log and terminated, and the
\* caller, which is the UI thread, enters scrcpy_process.wait(timeout=2);
\* with no such process the window is destroyed at once.
FinalCloseActions ==
    IF scrcpy_process # None /\ scrcpy_state = "running"
    THEN /\ Put(<<Msg("terminating")>>)
         /\ ui_pc' = "wait"
         /\ UNCHANGED <<scrcpy_state, window, destroyed_by, tick_pending, adjust_jobs>>
    ELSE /\ Destroy
         /\ UNCHANGED <<output_queue, scrcpy_state, ui_pc>>

\* Lines 277-280: the wait returns, or times out and the process is killed;
\* then the window is destroyed.  Until then the UI thread runs nothing else.
FinalCloseWait ==
    /\ Alive /\ ui_pc = "wait"
    /\ ui_pc' = "idle"
    /\ scrcpy_state' = "exited"
    /\ Destroy
    /\ UNCHANGED <<is_recording, recording_process, recording_device_path, is_closing,
                   scrcpy_process, record_button, screenshot_button, rec_procs,
                   run_pc, threads, ui_after, n_starts, host, close_from,
                   close_trace, output_queue, log, pipe, written, burst_drained, watched,
                   stream, aspect_ratio, resize_job, geom, sash, parsed, adjusted>>
    /\ UNCHANGED <<output_thread, scrcpy_hwnd, polls, hostVars>>
    /\ UNCHANGED <<shotVars, embedVars, devVars>>

\* The UI thread runs the oldest callback scheduled with master.after(0, ...).
RunAfter ==
    /\ Alive /\ UiIdle /\ ui_after # <<>>
    /\ ui_after' = Tail(ui_after)
    /\ LET c == Head(ui_after) IN
       CASE c.cb = "update_recording_ui" ->
              /\ UpdateRecordingUi(c.arg)
              /\ UNCHANGED <<output_queue, scrcpy_state, window, destroyed_by,
                             tick_pending, adjust_jobs, ui_pc, refresh_button,
                             screenshot_button, embed_state, child>>
         [] c.cb = "enable_record" ->
              /\ EnableRecord
              /\ UNCHANGED <<output_queue, scrcpy_state, window, destroyed_by,
                             tick_pending, adjust_jobs, ui_pc, refresh_button,
                             screenshot_button, embed_state, child>>
         [] c.cb = "enable_screenshot" ->
              /\ EnableScreenshot
              /\ UNCHANGED <<is_recording, recording_process, recording_device_path,
                             record_button, output_queue, scrcpy_state, window,
                             destroyed_by, tick_pending, adjust_jobs, ui_pc,
                             refresh_button, embed_state, child>>
         [] c.cb = "embed_window" ->
              /\ EmbedWindow
              /\ UNCHANGED <<is_recording, recording_process, recording_device_path,
                             record_button, scrcpy_state, window, destroyed_by,
                             tick_pending, adjust_jobs, ui_pc, refresh_button,
                             screenshot_button>>
         [] c.cb = "update_device_list" ->
              /\ UpdateDeviceList
              /\ UNCHANGED <<is_recording, recording_process, recording_device_path,
                             record_button, output_queue, scrcpy_state, window,
                             destroyed_by, tick_pending, adjust_jobs, ui_pc,
                             screenshot_button, embed_state, child>>
         [] c.cb = "final_close_actions" ->
              /\ FinalCloseActions
              /\ UNCHANGED <<is_recording, recording_process, recording_device_path,
                             record_button, refresh_button, screenshot_button,
                             embed_state, child>>
    /\ UNCHANGED <<is_closing, rec_procs, threads, close_from, close_trace, uiFrame>>
    /\ UNCHANGED <<shots, container, configure, devVars>>
    /\ UNCHANGED <<output_thread, scrcpy_hwnd, polls, clock, sessions, devices_thread,
                   adb_output_text>>

\* A guard that lets every close request through.
NeverClosing == FALSE

\* Line 266: `if self._is_closing: return`.
AlreadyClosing == is_closing

\* _on_close, lines 265-294: a close request on the session window.
OnClose ==
    /\ Alive /\ UiIdle /\ Open
    /\ IF AlreadyClosing
       THEN UNCHANGED vars
       ELSE /\ is_closing' = TRUE
            /\ close_from' = RecordingState
            /\ IF is_recording
               THEN /\ FreeIds # {}
                    /\ Put(<<Msg("closing")>>)
                    /\ record_button' = [record_button EXCEPT !.state = "disabled"]
                    /\ screenshot_button' = "disabled"
                    /\ threads' = [threads EXCEPT ![NewThread] = StopThread(TRUE)]
                    /\ UNCHANGED <<scrcpy_state, window, destroyed_by, tick_pending,
                                   adjust_jobs, ui_pc>>
               ELSE /\ FinalCloseActions
                    /\ UNCHANGED <<record_button, screenshot_button, threads>>
            /\ UNCHANGED <<is_recording, recording_process, recording_device_path,
                           rec_procs, ui_after, close_trace, uiFrame>>
    /\ UNCHANGED <<output_thread, scrcpy_hwnd, polls, hostVars>>
    /\ UNCHANGED <<shotVars, embedVars, devVars>>

\* ------------------------------------------------------------- the host
\* AdbRunnerApp._on_closing, lines 693-700: the close request on the host's
\* window schedules root.destroy 300 ms later, whatever the sessions are doing.
HostOnClosing ==
    /\ UiIdle /\ host \in {"running", "closing"}
    /\ host' = "closing"
    /\ UNCHANGED <<is_recording, recording_process, recording_device_path, is_closing,
                   scrcpy_process, record_button, screenshot_button, window, rec_procs,
                   scrcpy_state, run_pc, threads, ui_after, n_starts, close_from,
                   close_trace, destroyed_by, outVars, layVars>>
    /\ UNCHANGED <<runVars, hostVars>>
    /\ UNCHANGED <<shotVars, embedVars, devVars>>

\* root.destroy(): every child window goes with the root, the main loop
\* returns and the program ends; no callback and no daemon thread runs after.
RootDestroy ==
    /\ UiIdle /\ host = "closing"
    /\ host' = "destroyed"
    /\ window' = "destroyed"
    /\ destroyed_by' = IF Open THEN "host" ELSE destroyed_by
    /\ tick_pending' = 0
    /\ adjust_jobs' = {}
    /\ UNCHANGED <<is_recording, recording_process, recording_device_path, is_closing,
                   scrcpy_process, record_button, screenshot_button, rec_procs,
                   scrcpy_state, run_pc, threads, ui_after, n_starts, close_from,
                   close_trace, output_queue, log, pipe, written, burst_drained, watched,
                   stream, aspect_ratio, resize_job, geom, sash, parsed, adjusted>>
    /\ UNCHANGED <<runVars, hostVars>>
    /\ UNCHANGED <<shotVars, embedVars, devVars>>

\* The clock moves on by a millisecond.
ClockTick ==
    /\ Alive /\ clock < MaxClock
    /\ clock' = clock + 1
    /\ UNCHANGED <<sessVars, outVars, layVars, runVars, sessions, refresh_button,
                   devices_thread, adb_output_text>>
    /\ UNCHANGED <<shotVars, embedVars, devVars>>

\* _execute_gui_command, lines 1027-1031: the host opens another session,
\* whose __init__ starts its _run_and_embed_scrcpy thread (lines 88, 126-130).
ExecuteGuiCommand(s) ==
    /\ Alive /\ UiIdle /\ host = "running"
    /\ sessions[s].pc = "none"
    /\ \A r \in SessionIds : r < s => sessions[r].pc # "none"
    /\ sessions' = [sessions EXCEPT ![s] = Started]
    /\ UNCHANGED <<sessVars, outVars, layVars, runVars, clock, refresh_button,
                   devices_thread, adb_output_text>>
    /\ UNCHANGED <<shotVars, embedVars, devVars>>

\* Line 135 in the thread of another session: its title is made from the
\* clock as it reads now.
SessionTitle(s) ==
    /\ Alive /\ s # 1 /\ sessions[s].pc = "started"
    /\ sessions' = [sessions EXCEPT ![s] = Titled(clock)]
    /\ UNCHANGED <<sessVars, outVars, layVars, runVars, clock, refresh_button,
                   devices_thread, adb_output_text>>
    /\ UNCHANGED <<shotVars, embedVars, devVars>>

\* _refresh_devices, lines 974-981: the button is disabled and the
\* _get_devices_thread thread started.
RefreshDevices ==
    /\ Alive /\ UiIdle /\ host = "running"
    /\ devices_thread.pc = "none" /\ Len(adb_output_text) < MaxText
    /\ refresh_button' = "disabled"
    /\ devices_thread' = [pc |-> "list", devices |-> FALSE]
    /\ UNCHANGED <<sessVars, outVars, layVars, runVars, clock, sessions,
                   adb_output_text>>
    /\ UNCHANGED <<shotVars, embedVars, devVars>>

\* _get_devices_thread, lines 984-985: the devices are listed and
\* _update_device_list scheduled with root.after(0, ...).
GetDevices ==
    /\ Alive /\ devices_thread.pc = "list"
    /\ \E found \in BOOLEAN :
          /\ devices_thread' = [pc |-> "write", devices |-> found]
          /\ ui_after' = Append(ui_after, [cb |-> "update_device_list", arg |-> found])
    /\ UNCHANGED <<is_recording, recording_process, recording_device_path, is_closing,
                   scrcpy_process, record_button, screenshot_button, window, rec_procs,
                   scrcpy_state, run_pc, threads, n_starts, host, close_from,
                   close_trace, destroyed_by, outVars, layVars, runVars, clock,
                   sessions, refresh_button, adb_output_text>>
    /\ UNCHANGED <<shotVars, embedVars, devVars>>

\* _get_devices_thread, lines 986-992: still in the thread, each
\* _update_output_text call (line 987's too, whose result, None, is what
\* root.after receives) writes the widget: with devices the text is replaced
\* by the heading, one line for the device and the rule; with none, the
\* message and the rule are added to what is there.
GetDevicesWrite ==
    /\ Alive /\ devices_thread.pc = "write"
    /\ adb_output_text' = IF devices_thread.devices
                          THEN <<"Devices found:", "device", "rule">>
                          ELSE adb_output_text \o <<"No devices found.", "rule">>
    /\ devices_thread' = [pc |-> "none", devices |-> FALSE]
    /\ UNCHANGED <<sessVars, outVars, layVars, runVars, clock, sessions,
                   refresh_button>>
    /\ UNCHANGED <<shotVars, embedVars, devVars>>

\* ------------------------------------------------------------ the output
\* The mirroring process prints its next line on its standard output.
ScrcpyWrites ==
    /\ Alive /\ scrcpy_state = "running" /\ stream # <<>>
    /\ Len(pipe) < PipeCap
    /\ LET line == [k |-> Head(stream), n |-> Len(written) + 1]
       IN /\ pipe' = Append(pipe, line)
          /\ written' = Append(written, line)
    /\ stream' = Tail(stream)
    /\ UNCHANGED <<sessVars, output_queue, log, tick_pending, burst_drained, watched,
                   layVars>>
    /\ UNCHANGED <<runVars, hostVars>>
    /\ UNCHANGED <<shotVars, embedVars, devVars>>

\* _pipe_output_to_queue, lines 161-166: the reader thread, started once the
\* process is spawned, moves one line from the pipe to the queue.
PipeOutputToQueue ==
    /\ Alive /\ output_thread /\ scrcpy_process # None /\ pipe # <<>>
    /\ output_queue' = Append(output_queue, Head(pipe))
    /\ pipe' = Tail(pipe)
    /\ UNCHANGED <<sessVars, log, tick_pending, written, burst_drained, watched, stream,
                   layVars>>
    /\ UNCHANGED <<runVars, hostVars>>
    /\ UNCHANGED <<shotVars, embedVars, devVars>>

\* self.after(100, ...): a new timer of the window, none of the pending ones.
NewJob(jobs) == CHOOSE j \in 1..(Cardinality(jobs) + 1) : j \notin jobs

\* A turn of the loop that tells of a resolution it could not read.
TakeLineReports(st) ==
    LET line == Head(st.output_queue)
        text == LineText(line.k)
        shown == [st EXCEPT !.output_queue = Tail(@), !.log = Append(@, line)]
    IN IF Contains(text, Marker) /\ ~ParseResolution(text).ok
       THEN [shown EXCEPT !.log = Append(@, Msg("fatal"))]
       ELSE shown

\* A turn of the loop that puts the line above the text already shown.
TakeLineOnTop(st) ==
    [st EXCEPT !.output_queue = Tail(@), !.log = <<Head(st.output_queue)>> \o @]

\* One turn of the loop of _check_output_queue, lines 171-186: st holds the
\* queue, the widget's text, self.aspect_ratio and the window's timers as
\* the turns before have left them.
TakeLine(st) ==
    LET line == Head(st.output_queue)
        text == LineText(line.k)
        shown == [st EXCEPT !.output_queue = Tail(@), !.log = Append(@, line)]
    IN IF Contains(text, Marker) /\ ~Truthy(st.aspect_ratio)
       THEN LET r == ParseResolution(text)
            IN IF r.ok /\ r.height > 0
               THEN [shown EXCEPT !.aspect_ratio = TrueDivide(r.width, r.height),
                                  !.parsed = [width |-> r.width, height |-> r.height],
                                  !.adjust_jobs = @ \cup {NewJob(@)}]
               ELSE shown
       ELSE shown

\* The loop of _check_output_queue, line 170: until the queue is empty.
RECURSIVE DrainQueue(_)
DrainQueue(st) ==
    IF st.output_queue = <<>> THEN st ELSE DrainQueue(TakeLine(st))

\* A tick that ends without scheduling the next one.
RescheduleNever == tick_pending' = tick_pending - 1

\* Line 189: the timer that fired is gone, and self.after(100,
\* self._check_output_queue) sets the next one.
Reschedule == tick_pending' = (tick_pending - 1) + 1

\* _check_output_queue, lines 168-189: the tick empties the queue into the
\* text widget, reads the resolution, and schedules itself again.
CheckOutputQueue ==
    /\ Alive /\ UiIdle /\ Open /\ tick_pending > 0
    /\ LET st == DrainQueue([output_queue |-> output_queue, log |-> log,
                             aspect_ratio |-> aspect_ratio, parsed |-> parsed,
                             adjust_jobs |-> adjust_jobs])
       IN /\ output_queue' = st.output_queue
          /\ log' = st.log
          /\ aspect_ratio' = st.aspect_ratio
          /\ parsed' = st.parsed
          /\ adjust_jobs' = st.adjust_jobs
    /\ burst_drained' = (Len(output_queue) > 100)
    /\ Reschedule
    /\ UNCHANGED <<sessVars, pipe, written, watched, stream, resize_job, geom, sash,
                   adjusted>>
    /\ UNCHANGED <<runVars, hostVars>>
    /\ UNCHANGED <<shotVars, embedVars, devVars>>

\* ------------------------------------------------------------ the layout
\* min_output_width, line 216.
min_output_width == 250

\* A position left as computed, with neither bound applied.
Unclamped(new_sash_pos, total_width) == new_sash_pos

\* Lines 217-220: the low bound first, then the high bound.
Clamp(new_sash_pos, total_width) ==
    LET low == IF new_sash_pos < min_output_width THEN min_output_width
               ELSE new_sash_pos
    IN IF low > total_width - min_output_width THEN total_width - min_output_width
       ELSE low

\* Lines 194-195: the timers that after_cancel(self.resize_job) leaves
\* pending.
Kept == IF resize_job # None THEN adjust_jobs \ {resize_job} ELSE adjust_jobs

\* _on_window_resize, lines 191-196, on a <Configure> event that leaves the
\* window with geometry g: the pending debounced adjustment is cancelled and
\* a new one scheduled.
OnWindowResize(g) ==
    /\ Alive /\ UiIdle /\ Open
    /\ geom' = g
    /\ IF Truthy(aspect_ratio)
       THEN LET job == NewJob(Kept)
            IN /\ adjust_jobs' = Kept \cup {job}
               /\ resize_job' = job
       ELSE UNCHANGED <<adjust_jobs, resize_job>>
    /\ UNCHANGED <<sessVars, outVars, aspect_ratio, sash, parsed, adjusted>>
    /\ UNCHANGED <<runVars, hostVars>>
    /\ UNCHANGED <<shotVars, embedVars, devVars>>

\* The resize events a specification follows: those that find fewer than n
\* timers left alone.
BoundedResize(n, g) ==
    /\ Truthy(aspect_ratio) => Cardinality(Kept) < n
    /\ OnWindowResize(g)

\* _adjust_aspect_ratio, lines 198-225, run by the timer job.
AdjustAspectRatio(job) ==
    /\ Alive /\ UiIdle /\ Open /\ job \in adjust_jobs
    /\ resize_job' = None
    /\ IF ~Truthy(aspect_ratio)
       THEN /\ adjust_jobs' = adjust_jobs \ {job}
            /\ UNCHANGED <<sash, adjusted>>
       ELSE IF geom.h <= 1
       THEN UNCHANGED <<adjust_jobs, sash, adjusted>>
       ELSE LET ideal_mirror_width == IdealMirrorWidth(geom.h, aspect_ratio)
                total_width == geom.w
                new_sash_pos == Clamp(total_width - ideal_mirror_width, total_width)
            IN /\ adjust_jobs' = adjust_jobs \ {job}
               /\ \/ /\ sash' = new_sash_pos
                     /\ adjusted' = [w |-> total_width, h |-> geom.h,
                                     ideal |-> ideal_mirror_width]
                  \/ UNCHANGED <<sash, adjusted>>
    /\ UNCHANGED <<sessVars, outVars, aspect_ratio, geom, parsed>>
    /\ UNCHANGED <<runVars, hostVars>>
    /\ UNCHANGED <<shotVars, embedVars, devVars>>

\* ---------------------------------------------------------- specification
\* The session as ScrcpyEmbedWindow.__init__, lines 65-90, leaves it.
InitFields ==
    /\ is_recording = FALSE
    /\ recording_process = None
    /\ recording_device_path = None
    /\ is_closing = FALSE
    /\ scrcpy_process = None
    /\ record_button = [state |-> "normal", text |-> "Start Recording"]
    /\ screenshot_button = "normal"
    /\ window = "open"
    /\ rec_procs = [p \in ProcIds |-> "none"]
    /\ scrcpy_state = "none"
    /\ run_pc = "spawn"
    /\ threads = [t \in ThreadIds |-> FreeThread]
    /\ ui_after = <<>>
    /\ n_starts = 0
    /\ host = "running"
    /\ output_queue = <<>>
    /\ log = <<>>
    /\ tick_pending = 1
    /\ pipe = <<>>
    /\ aspect_ratio = Unset
    /\ resize_job = None
    /\ adjust_jobs = {}
    /\ geom = [w |-> 1, h |-> 1]
    /\ sash = None
    /\ close_from = "none"
    /\ close_trace = <<>>
    /\ destroyed_by = "none"
    /\ written = <<>>
    /\ burst_drained = FALSE
    /\ parsed = [width |-> 0, height |-> 0]
    /\ adjusted = [w |-> 0, h |-> 0, ideal |-> 0]
    /\ ui_pc = "idle"
    /\ output_thread = FALSE
    /\ scrcpy_hwnd = None
    /\ polls = 0
    /\ clock = 1
    /\ sessions = [s \in SessionIds |-> IF s = 1 THEN Started ELSE NoSession]
    /\ refresh_button = "normal"
    /\ devices_thread = [pc |-> "none", devices |-> FALSE]
    /\ adb_output_text = <<>>
    /\ shots = [i \in ShotIds |-> FreeShot]
    /\ embed_state = "none"
    /\ container = [w |-> 1, h |-> 1]
    /\ configure = <<>>
    /\ child = NoMove
    /\ screenshot_png = NoFile
    /\ peer = "idle"
    /\ pulled = [s \in SessionIds |-> NoFile]
    /\ removed = [s \in SessionIds |-> NoFile]

\* The session alone: the mirroring process prints nothing and the notices
\* are not followed.
Init ==
    /\ InitFields
    /\ stream = <<>>
    /\ watched = {}

Next ==
    \/ RunAndEmbedScrcpy
    \/ ScrcpyExits
    \/ \E p \in ProcIds : RecordingExits(p)
    \/ BoundedStart(MaxStarts)
    \/ \E t \in ThreadIds : StartBegin(t)
    \/ \E t \in ThreadIds : StartSpawn(t)
    \/ StopRecording
    \/ \E t \in ThreadIds : StopCheck(t)
    \/ \E t \in ThreadIds : StopKill(t)
    \/ \E t \in ThreadIds : StopWait(t)
    \/ \E t \in ThreadIds : StopRekill(t)
    \/ \E t \in ThreadIds : StopSleep(t)
    \/ \E t \in ThreadIds : StopPull(t)
    \/ \E t \in ThreadIds : StopRm(t)
    \/ \E t \in ThreadIds : StopDone(t)
    \/ \E t \in ThreadIds : StopAndCloseFinal(t)
    \/ RunAfter
    \/ FinalCloseWait
    \/ OnClose
    \/ HostOnClosing
    \/ RootDestroy
    \/ CheckOutputQueue

Spec == Init /\ [][Next]_vars

\* --------------------------------------------- the retrieval specification
\* The session with the error line of a failed pull followed in the log.
InitStop ==
    /\ InitFields
    /\ stream = <<>>
    /\ watched = {"pull_failed"}

SpecStop == InitStop /\ [][Next]_vars

\* --------------------------------------------- the discovery specification
\* The session with window discovery running, and the lines about the start
\* of the mirroring followed in the log.
InitDiscovery ==
    /\ InitFields
    /\ stream = <<>>
    /\ watched = {"fatal", "not_found", "embedded"}

NextDiscovery ==
    \/ Next
    \/ FindWindow
    \/ FindTimeout

SpecDiscovery == InitDiscovery /\ [][NextDiscovery]_vars

\* -------------------------------------------------- the host specification
\* The host opening sessions and refreshing its device list, beside the
\* start of the session followed here and of its recordings.
NextHost ==
    \/ ClockTick
    \/ \E s \in SessionIds : ExecuteGuiCommand(s)
    \/ \E s \in SessionIds : SessionTitle(s)
    \/ RunAndEmbedScrcpy
    \/ RefreshDevices
    \/ GetDevices
    \/ GetDevicesWrite
    \/ BoundedStart(MaxStarts)
    \/ \E t \in ThreadIds : StartBegin(t)
    \/ \E t \in ThreadIds : StartSpawn(t)
    \/ RunAfter

SpecHost == Init /\ [][NextHost]_vars

\* ------------------------------------------- the failed-start specification
\* The session with the error line of a failed capture spawn followed in the
\* log, and one more recording than the session specification follows.
InitStart ==
    /\ InitFields
    /\ stream = <<>>
    /\ watched = {"start_failed"}

NextStart ==
    \/ Next
    \/ BoundedStart(MaxStarts + 1)

SpecStart == InitStart /\ [][NextStart]_vars

\* ------------------------------------------------- the layout specification
\* The window sizes a <Configure> event may report.
Geoms == {[w |-> 1000, h |-> 1], [w |-> 1000, h |-> 400], [w |-> 1000, h |-> 800],
          [w |-> 1000, h |-> 854], [w |-> 400, h |-> 800]}

RECURSIVE Streams(_)
Streams(n) ==
    IF n = 0 THEN {<<>>}
    ELSE {<<k>> \o s : k \in ProcKinds, s \in Streams(n - 1)}

InitLayout ==
    /\ InitFields
    /\ stream \in Streams(MaxLines)
    /\ watched = {}

NextLayout ==
    \/ RunAndEmbedScrcpy
    \/ ScrcpyWrites
    \/ PipeOutputToQueue
    \/ CheckOutputQueue
    \/ \E g \in Geoms : BoundedResize(MaxJobs, g)
    \/ \E job \in 1..(MaxJobs + MaxLines) : AdjustAspectRatio(job)
    \/ OnClose
    \/ FinalCloseWait

SpecLayout == InitLayout /\ [][NextLayout]_vars

\* ------------------------------------------------ the debounce specification
\* The mirroring process prints its resolution once, and the window is
\* resized while adjustments are pending.
InitDebounce ==
    /\ InitFields
    /\ stream = <<"tex_1080x2400">>
    /\ watched = {}

NextDebounce ==
    \/ RunAndEmbedScrcpy
    \/ ScrcpyWrites
    \/ PipeOutputToQueue
    \/ CheckOutputQueue
    \/ \E g \in Geoms : BoundedResize(MaxPending, g)
    \/ \E job \in 1..(MaxPending + 1) : AdjustAspectRatio(job)

SpecDebounce == InitDebounce /\ [][NextDebounce]_vars

\* ------------------------------------------------ the embed specification
\* Window discovery, the embed step and the container's resizes; the fatal
\* line and the embed step's notice are followed.
InitEmbed ==
    /\ InitFields
    /\ stream = <<>>
    /\ watched = {"fatal", "embedded"}

NextEmbed ==
    \/ RunAndEmbedScrcpy
    \/ ScrcpyExits
    \/ FindWindow
    \/ FindTimeout
    \/ RunAfter
    \/ OnClose
    \/ FinalCloseWait
    \/ CheckOutputQueue
    \/ \E sz \in Sizes : ContainerResizes(sz)
    \/ DispatchConfigure

SpecEmbed == InitEmbed /\ [][NextEmbed]_vars

\* ------------------------------------------- the screenshot specification
\* The session with its screenshot button: one recording at most, and the
\* notices are not followed.
ShotStep ==
    \/ TakeScreenshot
    \/ \E i \in ShotIds : ShotMkdir(i)
    \/ \E i \in ShotIds : ShotCapture(i)
    \/ \E i \in ShotIds : ShotPull(i)
    \/ \E i \in ShotIds : ShotRm(i)
    \/ \E i \in ShotIds : ShotFinally(i)

NextShot ==
    \/ ShotStep
    \/ RunAndEmbedScrcpy
    \/ BoundedStart(1)
    \/ \E t \in ThreadIds : StartBegin(t)
    \/ \E t \in ThreadIds : StartSpawn(t)
    \/ \E t \in ThreadIds : StopCheck(t)
    \/ \E t \in ThreadIds : StopKill(t)
    \/ \E t \in ThreadIds : StopWait(t)
    \/ \E t \in ThreadIds : StopRekill(t)
    \/ \E t \in ThreadIds : StopSleep(t)
    \/ \E t \in ThreadIds : StopPull(t)
    \/ \E t \in ThreadIds : StopRm(t)
    \/ \E t \in ThreadIds : StopDone(t)
    \/ \E t \in ThreadIds : StopAndCloseFinal(t)
    \/ RunAfter
    \/ FinalCloseWait
    \/ OnClose
    \/ HostOnClosing
    \/ RootDestroy

SpecShot == Init /\ [][NextShot]_vars

\* ------------------------------------------- the resolution specification
\* The mirroring process prints MaxLines + 1 lines, each a resolution line
\* that cannot be used (no 'x', a height of 0, a negative height), one that
\* can, or another line.
TextureKinds == {"tex_star", "tex_720x0", "tex_720x-1", "tex_1080x2400", "plain"}

RECURSIVE StreamsOf(_, _)
StreamsOf(K, n) ==
    IF n = 0 THEN {<<>>}
    ELSE {<<k>> \o s : k \in K, s \in StreamsOf(K, n - 1)}

InitResolution ==
    /\ InitFields
    /\ stream \in StreamsOf(TextureKinds, MaxLines + 1)
    /\ watched = {}

NextResolution ==
    \/ RunAndEmbedScrcpy
    \/ ScrcpyWrites
    \/ PipeOutputToQueue
    \/ CheckOutputQueue
    \/ \E job \in 1..(MaxLines + 1) : AdjustAspectRatio(job)

SpecResolution == InitResolution /\ [][NextResolution]_vars

\* ---------------------------------------------- the two-session specification
\* Two sessions on one device, each taking screenshots.
NextPeers ==
    \/ ShotStep
    \/ RunAfter
    \/ \E s \in SessionIds : ExecuteGuiCommand(s)
    \/ PeerTakeScreenshot
    \/ PeerCapture
    \/ PeerPull
    \/ PeerRm
    \/ PeerFinally

SpecPeers == Init /\ [][NextPeers]_vars

\* ----------------------------------------------- the shutdown specification
\* The session with the notices of its close path followed.
InitShutdown ==
    /\ InitFields
    /\ stream = <<>>
    /\ watched = {"closing", "terminating"}

SpecShutdown == InitShutdown /\ [][Next]_vars

\* -------------------------------------------------- the burst specification
\* The mirroring process prints BurstLen lines, the resolution among them.
BurstStream ==
    [i \in 1..BurstLen |-> IF i = 2 THEN "tex_1080x2400" ELSE "plain"]

InitBurst ==
    /\ InitFields
    /\ stream = BurstStream
    /\ watched = {}

NextBurst ==
    \/ RunAndEmbedScrcpy
    \/ ScrcpyWrites
    \/ PipeOutputToQueue
    \/ CheckOutputQueue

SpecBurst == InitBurst /\ [][NextBurst]_vars

\* ------------------------------------------------------------------ claims
\* The stop sequence as _stop_recording_thread runs it in full: kill, wait
\* (with the second kill of lines 412-414 at a timeout), pull, delete.
FullStop ==
    {<<"kill", "wait", "pull", "rm">>, <<"kill", "wait", "kill", "pull", "rm">>}

\* C1: a session closed from Recording and destroyed by its own close path
\* has run the full stop sequence, in order, before the window was destroyed.
C1_CloseRunsFullStop ==
    (destroyed_by = "session" /\ close_from = "Recording") => close_trace \in FullStop

\* C2: every stop sequence was entered from Recording and every start
\* sequence from Idle.
C2_EnteredFromRightState ==
    \A t \in ThreadIds :
        /\ threads[t].kind = "stop" => threads[t].from = "Recording"
        /\ threads[t].kind = "start" => threads[t].from = "Idle"

\* The UI thread runs the _update_recording_ui(False) a stop sequence ends with.
StopCompletes ==
    /\ ui_after # <<>>
    /\ Head(ui_after) = [cb |-> "update_recording_ui", arg |-> FALSE]
    /\ ui_after' = Tail(ui_after)

\* C3: when a stop sequence completes, the state is Idle and the record
\* button is enabled.
C3_StopEndsIdle ==
    [][StopCompletes => (RecordingState' = "Idle" /\ record_button'.state = "normal")]_vars

\* No recording thread is alive and no callback is waiting for the UI thread.
Quiescent == ActiveStarts = {} /\ ActiveStops = {} /\ ui_after = <<>>

\* C4: with no transition in flight, the remote path is set exactly when the
\* state is not Idle.
C4_PathIffNotIdle ==
    Quiescent => ((recording_device_path # None) <=> (RecordingState # "Idle"))

\* C5: the session window is destroyed only from a state that is Idle.
C5_DestroyedOnlyIdle ==
    [][(window = "open" /\ window' = "destroyed") => RecordingState = "Idle"]_vars

\* C10: at most one start or stop sequence is executing at any time.
C10_OneTransition ==
    Cardinality(ActiveStarts \cup ActiveStops) <= 1

\* C6: once self.aspect_ratio has been assigned, no step changes it.
C6_AssignedOnce ==
    [][aspect_ratio.set => aspect_ratio' = aspect_ratio]_vars

\* The position the last adjustment computed needed no clamping.
NoClamping ==
    /\ adjusted.w - adjusted.ideal >= min_output_width
    /\ adjusted.w - adjusted.ideal <= adjusted.w - min_output_width

\* C7 as stated: every applied split position lies in [250, W - 250].
C7_InInterval ==
    sash # None => (min_output_width <= sash /\ sash <= adjusted.w - min_output_width)

\* C7: for a total width W of at least 500 the applied split position lies
\* in [250, W - 250]; for a narrower window it is W - 250.
C7_Clamped ==
    sash # None =>
        IF adjusted.w >= 2 * min_output_width
        THEN min_output_width <= sash /\ sash <= adjusted.w - min_output_width
        ELSE sash = adjusted.w - min_output_width

C7_Narrow == sash # None /\ adjusted.w < 2 * min_output_width

\* floor(paneHeight * width / height) for the parsed resolution.
ExactIdeal == (adjusted.h * parsed.width) \div parsed.height

\* C8 as stated: without clamping the applied split position is
\* totalWidth - floor(paneHeight * width / height).
C8_ExactFloor ==
    (sash # None /\ NoClamping) => sash = adjusted.w - ExactIdeal

\* C8: without clamping the applied split position is totalWidth minus the
\* ideal width, which is floor(paneHeight * width / height), or one less than
\* it where paneHeight * width / height is a whole number that the double
\* product falls short of; 1080x2400 with pane height 800 and total width
\* 1000 gives the ideal width 360 and the position 640.
C8_FloorOrOneLess ==
    (sash # None /\ NoClamping) =>
        /\ sash = adjusted.w - adjusted.ideal
        /\ \/ adjusted.ideal = ExactIdeal
           \/ /\ adjusted.ideal = ExactIdeal - 1
              /\ (adjusted.h * parsed.width) % parsed.height = 0
        /\ (parsed = [width |-> 1080, height |-> 2400]
              /\ adjusted.h = 800 /\ adjusted.w = 1000)
           => (adjusted.ideal = 360 /\ sash = 640)

C8_Scenario ==
    /\ parsed = [width |-> 1080, height |-> 2400]
    /\ adjusted = [w |-> 1000, h |-> 800, ideal |-> 360]
    /\ sash = 640

\* The lines of the mirroring process among those of a log or a queue.
ProcLines(lines) ==
    LET FromProc(l) == l.n > 0 IN SelectSeq(lines, FromProc)

\* C9: the lines the mirroring process has written are, in the order written
\* and each once, the lines of the log, then those of the queue, then those
\* still in the pipe.
C9_InOrderOnce ==
    ProcLines(log) \o ProcLines(output_queue) \o pipe = written

C9_BurstLogged == burst_drained /\ Len(log) > 100

\* Thread t is between its kill of the capture process and the return of its
\* wait on it, lines 407-408.
InKillWait(t) == threads[t].kind = "stop" /\ threads[t].pc = "wait"

\* The steps of _stop_recording_thread that use self.recording_process: the
\* poll of line 401, the kill of line 407, the wait of line 408.
UsesHandle(t) == threads[t].kind = "stop" /\ threads[t].pc \in {"check", "kill", "wait"}

\* C11: while a thread is between its kill and the return of its wait, no
\* step clears self.recording_process and no other thread takes a step that
\* polls, kills or waits on it.
C11_HandleExclusive ==
    [][\A t \in ThreadIds :
          InKillWait(t) =>
             /\ recording_process' = recording_process
             /\ \A u \in ThreadIds \ {t} :
                   UsesHandle(u) => threads'[u] = threads[u]]_vars

\* Thread t ends its stop sequence by scheduling _update_recording_ui(False),
\* the callback that returns the state to Idle.
SchedulesIdle(t) ==
    /\ t \in ActiveStops
    /\ ui_after' = Append(ui_after, [cb |-> "update_recording_ui", arg |-> FALSE])
    /\ threads'[t] = AfterUpdate(threads[t])

\* C12: a stop sequence entered from Recording has pulled the recording and
\* deleted the remote copy when it schedules the return to Idle.
C12_PulledAndDeleted ==
    [][\A t \in ThreadIds :
          (SchedulesIdle(t) /\ threads[t].from = "Recording") =>
             (Len(threads[t].trace) >= 2
              /\ SubSeq(threads[t].trace, Len(threads[t].trace) - 1,
                        Len(threads[t].trace)) = <<"pull", "rm">>)]_vars

\* Thread t has attempted the pull.
Pulled(t) == \E i \in 1..Len(threads[t].trace) : threads[t].trace[i] = "pull"

\* C13: in a stop sequence the delete of the remote file is attempted whenever
\* the pull was: a thread that has pulled is about to delete or has deleted
\* right after the pull, whatever the pull's outcome; and the step that pulls
\* adds at most the error line of a failed pull to the queue and changes
\* nothing else but the thread's own position.
C13_DeleteAfterPull ==
    /\ [](\A t \in ThreadIds :
            Pulled(t) =>
               LET tr == threads[t].trace IN
               \/ threads[t].pc = "rm" /\ tr[Len(tr)] = "pull"
               \/ threads[t].pc \in {"done", "final"}
                  /\ SubSeq(tr, Len(tr) - 1, Len(tr)) = <<"pull", "rm">>)
    /\ [][\A t \in ThreadIds :
            (threads[t].pc = "pull" /\ threads'[t] # threads[t]) =>
               /\ threads' = [threads EXCEPT ![t].pc = "rm",
                                             ![t].trace = Append(@, "pull")]
               /\ output_queue' \in {output_queue,
                                      Append(output_queue, Msg("pull_failed"))}
               /\ UNCHANGED <<is_recording, recording_process, recording_device_path,
                              rec_procs, ui_after, record_button, screenshot_button,
                              window, is_closing, scrcpy_state, log>>]_vars

\* A stop sequence whose pull failed has gone on to the delete.
C13_FailedPullDeleted ==
    /\ Count("pull_failed") = 1
    /\ \E t \in ThreadIds :
          /\ threads[t].pc = "done"
          /\ threads[t].trace \in FullStop

\* What the close path has in progress or has done: its stop-and-close
\* threads, the final_close_actions it has scheduled, the one the UI thread
\* is inside, and the window it has destroyed.
CloseThreads == {t \in ThreadIds : threads[t].closing}
Teardowns ==
    Cardinality(CloseThreads)
    + Cardinality({i \in 1..Len(ui_after) : ui_after[i].cb = "final_close_actions"})
    + (IF ui_pc = "wait" THEN 1 ELSE 0)
    + (IF destroyed_by = "session" THEN 1 ELSE 0)

\* C14: whatever the close requests and the close path's thread do, at most
\* one teardown exists (one stop sequence of the close path, which becomes one
\* scheduled final_close_actions, which becomes one run of it), none before
\* the first request; and once a request has been accepted no step starts
\* another stop sequence of the close path, nor records another request.
C14_CloseOnce ==
    /\ [](Teardowns <= 1 /\ (~is_closing => Teardowns = 0))
    /\ [][is_closing =>
            /\ is_closing'
            /\ close_from' = close_from
            /\ {t \in ThreadIds : threads'[t].closing} \subseteq CloseThreads]_vars

\* A close request can arrive while the close path's stop sequence is waiting
\* for the capture process.
C14_RequestDuringTeardown ==
    /\ Alive /\ UiIdle /\ Open /\ is_closing /\ is_recording
    /\ FreeIds # {}
    /\ \E t \in CloseThreads : threads[t].pc = "wait"

\* The embed step is scheduled and has not run.
EmbedPending == \E i \in 1..Len(ui_after) : ui_after[i].cb = "embed_window"

\* C15: a discovery that ends with no window found leaves exactly one
\* 'could not find window' line (and there is none otherwise), schedules
\* no embed step and keeps no window handle; the step that ends it changes
\* nothing but the queue: the mirroring process, the tick, the two buttons,
\* the recording and its threads are as they were.
C15_NotFoundDegrades ==
    /\ [](Count("not_found") = (IF run_pc = "not_found" THEN 1 ELSE 0))
    /\ [](run_pc = "not_found" => scrcpy_hwnd = None /\ ~EmbedPending)
    /\ [][(run_pc # "not_found" /\ run_pc' = "not_found") =>
            UNCHANGED <<scrcpy_process, scrcpy_state, output_thread, tick_pending,
                        record_button, screenshot_button, is_recording,
                        recording_process, rec_procs, threads, ui_after, window,
                        is_closing, log, ui_pc>>]_vars

\* The line is in the log, the mirroring process runs, a recording is in
\* progress and the window takes requests.
C15_DegradedSessionWorks ==
    /\ run_pc = "not_found"
    /\ \E i \in 1..Len(log) : log[i].k = "not_found"
    /\ scrcpy_state = "running" /\ tick_pending > 0
    /\ is_recording /\ recording_process # None /\ rec_procs[recording_process] = "running"
    /\ record_button.state = "normal" /\ screenshot_button = "normal"
    /\ Open /\ UiIdle /\ ~is_closing

\* The spawn of the mirroring process has failed: the thread is past its
\* except clause and no handle was stored.
SpawnFailed == run_pc = "failed" /\ scrcpy_process = None

\* C16: after a failed spawn the fatal line is there, once; the session
\* holds no process handle and no process, has started no output reader,
\* has made no FindWindow call, keeps no window handle and has no embed step
\* scheduled; and the thread stays where it ended, so that the spawn is not
\* tried again.  With no handle stored, the fatal line is there only then.
C16_SpawnFailureIsFinal ==
    /\ [](SpawnFailed =>
            /\ Count("fatal") = 1
            /\ scrcpy_state = "none" /\ ~output_thread
            /\ polls = 0 /\ scrcpy_hwnd = None /\ ~EmbedPending)
    /\ [](scrcpy_process = None => (Count("fatal") > 0 <=> run_pc = "failed"))
    /\ [][SpawnFailed =>
            /\ run_pc' = "failed" /\ scrcpy_process' = None
            /\ scrcpy_state' = "none" /\ ~output_thread'
            /\ polls' = 0]_vars

\* The fatal line of a failed spawn has reached the log.
C16_FatalLogged ==
    /\ SpawnFailed
    /\ \E i \in 1..Len(log) : log[i].k = "fatal"

\* C17: the fatal line is in the session's log or queue at most once, and
\* only when the spawn failed, that is, with no process handle stored.
C17_FatalOnlyOnSpawnFailure ==
    /\ Count("fatal") <= 1
    /\ (Count("fatal") = 1 => scrcpy_process = None)

\* C18: the UI thread is never inside a blocking call: it is always in the
\* event loop, between two handlers.
C18_UiNeverBlocks == ui_pc = "idle"

\* The step is one of a background thread: of _get_devices_thread, of a
\* recording thread, or of a session's _run_and_embed_scrcpy.
BackgroundStep ==
    \/ devices_thread.pc # "none" /\ devices_thread' # devices_thread
    \/ \E t \in ThreadIds : threads[t].kind # "free" /\ threads'[t] # threads[t]
    \/ run_pc' # run_pc
    \/ \E s \in SessionIds : sessions[s].pc = "started" /\ sessions'[s] # sessions[s]

\* C19: a step of a background thread leaves the UI state as it is: the text
\* of the widgets, the state of the buttons, the contents of the log.
C19_BackgroundLeavesUi ==
    [][BackgroundStep =>
          UNCHANGED <<adb_output_text, log, refresh_button, record_button,
                      screenshot_button, window>>]_vars

\* C20: two sessions that have made their titles have different titles.
C20_TitlesDiffer ==
    \A r, s \in SessionIds :
        (r # s /\ sessions[r].pc = "titled" /\ sessions[s].pc = "titled")
           => sessions[r].unique_title # sessions[s].unique_title

\* C21: the session spawns at most one mirroring process.  A process is
\* there only once the thread of _run_and_embed_scrcpy is past its spawn,
\* which it never comes back to; a handle once stored stays the same; and a
\* process that has been started is never started again, also after it has
\* ended.
C21_SpawnedOnce ==
    /\ [](scrcpy_state # "none" => scrcpy_process # None /\ run_pc # "spawn")
    /\ [][/\ run_pc # "spawn" => run_pc' # "spawn"
          /\ scrcpy_process # None => scrcpy_process' = scrcpy_process
          /\ scrcpy_state # "none" => scrcpy_state' # "none"
          /\ scrcpy_state = "exited" => scrcpy_state' = "exited"
          /\ (scrcpy_state # "running" /\ scrcpy_state' = "running")
                => run_pc = "spawn"]_vars

\* The mirroring process has ended by itself and the session is still open.
C21_EndedSessionOpen ==
    /\ scrcpy_state = "exited" /\ scrcpy_process # None
    /\ Alive /\ Open /\ ~is_closing

\* C22: from a close request accepted while recording until the window is
\* destroyed, the record and the screenshot buttons are disabled.
C22_DisabledUntilDisposed ==
    (is_closing /\ close_from = "Recording" /\ Open) =>
        (record_button.state = "disabled" /\ screenshot_button = "disabled")

\* C23: with the aspect ratio known, a handled resize event leaves exactly
\* one layout adjustment pending.
C23_OnePendingAfterResize ==
    [][(Truthy(aspect_ratio) /\ resize_job' # None
        /\ <<resize_job, geom>>' # <<resize_job, geom>>)
          => Cardinality(adjust_jobs') = 1]_vars

\* A callback that enables the record button is scheduled.
RecordEnablePending ==
    \E i \in 1..Len(ui_after) : ui_after[i].cb \in {"update_recording_ui", "enable_record"}

\* C24 (for the record button): while the session is open and not closing,
\* a record button that an operation has disabled has something left to
\* enable it again: the operation's thread still runs, or its callback is
\* scheduled.  Where this fails nothing is left that enables the button.
C24_DisabledHasEnabler ==
    (Alive /\ Open /\ ~is_closing /\ record_button.state = "disabled") =>
        (ActiveStarts # {} \/ ActiveStops # {} \/ RecordEnablePending)

\* Thread t is _start_recording_thread at its Popen call, and the step is
\* the one in which the call raises: the thread ends with no process started.
SpawnFails(t) ==
    /\ threads[t].kind = "start" /\ threads[t].pc = "spawn"
    /\ threads'[t] # threads[t]
    /\ rec_procs' = rec_procs

\* The UI thread runs the callback that the failed spawn scheduled, on a
\* window that is open.
EnableRecordRuns ==
    /\ ui_after # <<>> /\ Head(ui_after).cb = "enable_record"
    /\ ui_after' = Tail(ui_after)
    /\ Open

\* C25: a capture spawn that fails queues the error line, schedules the
\* re-enabling of the record button and stores no handle; and once that
\* callback has run the state is Idle, the button is enabled and reads
\* 'Start Recording', and no handle is held.
C25_FailedStartIsIdle ==
    /\ [][\A t \in ThreadIds :
            SpawnFails(t) =>
               /\ output_queue' = Append(output_queue, Msg("start_failed"))
               /\ ui_after' = Append(ui_after, [cb |-> "enable_record", arg |-> FALSE])
               /\ UNCHANGED <<recording_process, is_recording, record_button>>]_vars
    /\ [][EnableRecordRuns =>
            /\ record_button' = [state |-> "normal", text |-> "Start Recording"]
            /\ ~is_recording' /\ recording_process' = None]_vars

\* Thread t is a stop sequence whose wait on the capture process has timed
\* out.
TimedOut(t) ==
    /\ threads[t].kind = "stop"
    /\ \/ threads[t].pc = "rekill"
       \/ \E i \in 1..(Len(threads[t].trace) - 1) :
             threads[t].trace[i] = "wait" /\ threads[t].trace[i + 1] = "kill"

\* The step that follows each position of a stop sequence past its wait.
NextStep(pc) ==
    CASE pc = "rekill" -> "sleep"
      [] pc = "sleep" -> "pull"
      [] pc = "pull" -> "rm"
      [] pc = "rm" -> "done"
      [] OTHER -> "none"

\* C26: a stop sequence whose wait has timed out goes on: each of its steps
\* is the next one of the sequence (the second kill, the settle delay, the
\* pull, the delete), and its last step schedules the return to Idle.
C26_TimeoutGoesOn ==
    [][\A t \in ThreadIds :
          (TimedOut(t) /\ threads[t].pc # "final" /\ threads'[t] # threads[t]) =>
             IF threads[t].pc = "done"
             THEN ui_after' = Append(ui_after,
                                     [cb |-> "update_recording_ui", arg |-> FALSE])
             ELSE threads'[t].kind = "stop" /\ threads'[t].pc = NextStep(threads[t].pc)]_vars

\* The orders in which a screenshot run can have made its steps so far.
ShotOrders ==
    {<<>>, <<"disable">>, <<"disable", "capture">>, <<"disable", "capture", "enable">>,
     <<"disable", "capture", "pull">>, <<"disable", "capture", "pull", "delete">>,
     <<"disable", "capture", "pull", "delete", "enable">>}

\* C27: a screenshot run makes its steps in the order disable, capture,
\* pull, delete, re-enable; a run that has pulled deletes next, whatever the
\* pull gave; and no two runs of a session are in flight together.
C27_ScreenshotOrder ==
    /\ [](Cardinality(InFlight) <= 1)
    /\ [](\A i \in ShotIds : shots[i].trace \in ShotOrders)
    /\ [](\A i \in ShotIds :
            (shots[i].pc = "rm") = (shots[i].trace = <<"disable", "capture", "pull">>))
    /\ [][\A i \in ShotIds :
            (shots[i].pc = "rm" /\ shots'[i] # shots[i]) =>
                shots'[i].trace = <<"disable", "capture", "pull", "delete">>]_vars
    /\ [][\A i \in ShotIds :
            (shots[i].pc \in {"free", "ended"} /\ shots'[i].pc \notin {"free", "ended"}) =>
                (screenshot_button = "normal" /\ screenshot_button' = "disabled")]_vars

\* A second screenshot run has gone through pull and delete and handed the
\* re-enabling over, after a first one has ended.
C27_SecondRunEnded ==
    /\ shots[1].pc = "ended" /\ shots[2].pc = "ended"
    /\ shots[1].trace = <<"disable", "capture", "pull", "delete", "enable">>
    /\ shots[2].trace = <<"disable", "capture", "pull", "delete", "enable">>

\* The embed step runs and fails.
EmbedFails == embed_state # "failed" /\ embed_state' = "failed"

\* C28: an embed step that fails puts a line in the session's queue, and
\* leaves the mirroring process as it is.
C28_EmbedFailureLogged ==
    [][EmbedFails => /\ Len(output_queue') = Len(output_queue) + 1
                     /\ scrcpy_state' = scrcpy_state]_vars

\* The <Configure> event at the head of the queue is dispatched to
\* _resize_child, the window being embedded and its process running.
ResizeHandled ==
    /\ configure # <<>> /\ configure' = Tail(configure)
    /\ embed_state = "embedded" /\ scrcpy_state = "running"

\* C29: once embedded, each container resize that is handled gives the
\* embedded window the event's width and height, so that with no event left
\* its bounds are the container's; and before a window is located no
\* MoveWindow call is made.
C29_ChildFollowsContainer ==
    /\ [][ResizeHandled =>
            /\ child'.w = Head(configure).w /\ child'.h = Head(configure).h
            /\ configure' = <<>> => (child'.w = container.w /\ child'.h = container.h)]_vars
    /\ []((embed_state = "embedded" /\ scrcpy_state = "running" /\ Open /\ configure = <<>>)
            => (child.w = container.w /\ child.h = container.h))
    /\ [](scrcpy_hwnd = None => child = NoMove)

\* A resize handled after the embed has moved the embedded window to the
\* container's new size.
C29_ResizedAfterEmbed ==
    /\ embed_state = "embedded" /\ scrcpy_state = "running" /\ Open
    /\ child = [w |-> MaxSize, h |-> MaxSize, by |-> "resize_child"]
    /\ configure = <<>>

\* The resolution lines of TextureKinds that carry two integers and a
\* height above 0, and those that do not.
Usable(l) == l.k = "tex_1080x2400"
Unusable(l) == l.k \in {"tex_star", "tex_720x0", "tex_720x-1"}

\* C30: a tick that finds resolution lines it cannot use shows them like
\* any other line and nothing else: the queue is emptied, the log grows by
\* the queue's lines and no other, and with no usable line in the queue the
\* aspect ratio and the pending adjustments are as before; a usable line
\* behind them sets the aspect ratio that was unset.
C30_UnusableIgnored ==
    [][log' # log =>
         /\ output_queue' = <<>>
         /\ log' = log \o output_queue
         /\ (\A i \in 1..Len(output_queue) : ~Usable(output_queue[i])) =>
                (aspect_ratio' = aspect_ratio /\ adjust_jobs' = adjust_jobs)
         /\ (aspect_ratio = Unset /\ \E i \in 1..Len(output_queue) : Usable(output_queue[i])) =>
                /\ aspect_ratio' = TrueDivide(1080, 2400)
                /\ Cardinality(adjust_jobs') = Cardinality(adjust_jobs) + 1]_vars

\* Two unusable resolution lines are in the log, the usable one behind
\* them, and the aspect ratio is set.
C30_SetAfterUnusable ==
    /\ Len(log) = 3
    /\ Unusable(log[1]) /\ Unusable(log[2]) /\ log[1].k # log[2].k /\ Usable(log[3])
    /\ aspect_ratio = TrueDivide(1080, 2400)

\* C31: while the session window exists exactly one output tick is pending
\* or running: a tick leaves one behind it, and only the window's
\* destruction takes it away.
C31_OneTick ==
    /\ [](Open => tick_pending = 1)
    /\ [][tick_pending' # tick_pending => (Open /\ window' = "destroyed")]_vars

\* Ticks have shown every line of the mirroring process, and the window is
\* still there with a close request under way.
C31_TickedWhileClosing == Open /\ is_closing /\ Len(log) = MaxLines /\ tick_pending = 1

\* C32: when the session's own close path destroys the window, no capture
\* process that a start sequence spawned is still running unkilled.
C32_KilledBeforeDestroyed ==
    [][(Open /\ window' = "destroyed" /\ host' # "destroyed") =>
          \A p \in ProcIds : rec_procs[p] # "running"]_vars

\* Thread t is a stop sequence that has begun and has not yet made its
\* delete step.
BeforeDelete(t) ==
    /\ threads[t].kind = "stop"
    /\ threads[t].pc \in {"check", "kill", "wait", "rekill", "sleep", "pull", "rm"}

\* C33: between the beginning of a stop sequence and its delete step no
\* step changes or clears self.recording_device_path or
\* self.recording_process, so that the pull and the delete name the path the
\* matching start generated.
C33_PathHeld ==
    [][(\E t \in ThreadIds : BeforeDelete(t)) =>
          /\ recording_device_path' = recording_device_path
          /\ recording_process' = recording_process]_vars

\* C34: with two sessions on one device, a screenshot run's pull retrieves
\* the file its own capture wrote and its delete removes only that file.
C34_OwnFile ==
    \A s \in {1, 2} : pulled[s] \in {NoFile, s} /\ removed[s] \in {NoFile, s}

\* C35: every line put on the queue before the session's close path
\* destroys the window reaches the log: when the window goes, no tick being
\* left to run, the queue holds no line.
C35_ShownBeforeDestroyed ==
    [][(Open /\ window' = "destroyed" /\ host' # "destroyed") => output_queue' = <<>>]_vars

\* The two ways discovery may end: the handle is stored and one embed step
\* scheduled, with no line queued; or one not-found line is queued, with no
\* handle and no embed step.
EndsFound ==
    /\ scrcpy_hwnd' # None
    /\ ui_after' = Append(ui_after, [cb |-> "embed_window", arg |-> FALSE])
    /\ output_queue' = output_queue
EndsNotFound ==
    /\ scrcpy_hwnd' = None
    /\ ui_after' = ui_after
    /\ output_queue' = Append(output_queue, Msg("not_found"))

\* C36: discovery makes at most MaxPolls polls, and the step that ends it
\* has exactly one of the two outcomes.
C36_OneOutcome ==
    /\ [](polls <= MaxPolls)
    /\ [][(run_pc = "find" /\ run_pc' # "find") =>
            ((EndsFound \/ EndsNotFound) /\ ~(EndsFound /\ EndsNotFound))]_vars

====
